---------------------------- MODULE Spec2Model ----------------------------
(***************************************************************************)
(* A model of the resume parsing pipeline of jobsaver/resume-parser:       *)
(*   parsers/pdf_extractor.py      extract_text_from_pdf, clean_text       *)
(*   parsers/resume_parser.py      parse_resume, extract_from_text,        *)
(*                                 extract_dynamic_fields,                 *)
(*                                 clean_parsed_data                       *)
(*   controllers/parser_controller.py  extract_resume                      *)
(*                                                                         *)
(* Text is a sequence of one-character strings.  The library functions are *)
(* operators; the specification Spec applies them to inputs drawn from     *)
(* bounded sets, SpecCtl runs the controller's request handler.            *)
(***************************************************************************)
EXTENDS Naturals, Sequences, FiniteSets

VARIABLES
    call,   \* the library call in progress: its operation, arguments, outcome
    fs,     \* UPLOAD_FOLDER: file name -> the document stored under it
    reqs,   \* the controller's requests: request -> its handler's locals
    db,     \* the collection db.resumes: the set of its documents
    spaces  \* the bucket in object storage: the set of its object keys

vars == <<call, fs, reqs, db, spaces>>

----------------------------------------------------------------------------
(* Bounds of the model *)

\* longest page text / text-layer string a backend produces (short texts)
MaxLen == 2

\* most field rules whose pattern occurs in one text
MaxFound == 2

\* the number of pieces that a text with skills or key-value lines is made of
MaxTokens == 3

----------------------------------------------------------------------------
(* Characters *)

LowerSeq == << "a","b","c","d","e","f","g","h","i","j","k","l","m",
               "n","o","p","q","r","s","t","u","v","w","x","y","z" >>

UpperSeq == << "A","B","C","D","E","F","G","H","I","J","K","L","M",
               "N","O","P","Q","R","S","T","U","V","W","X","Y","Z" >>

Digits == {"0","1","2","3","4","5","6","7","8","9"}

Range(s) == { s[i] : i \in DOMAIN s }

UpperChars == Range(UpperSeq)

LowerOf == [c \in UpperChars |->
              LowerSeq[CHOOSE i \in DOMAIN UpperSeq : UpperSeq[i] = c]]

\* str.lower() / re.IGNORECASE on one character
Lower(c) == IF c \in UpperChars THEN LowerOf[c] ELSE c

SpaceChars == {" ", "\n", "\t", "\r"}

WordChars == Range(LowerSeq) \cup UpperChars \cup Digits \cup {"_"}

PunctChars == {".", "!", "?"}

\* the regex class \s
IsSpace(c) == c \in SpaceChars

\* the regex class \w
IsWord(c) == c \in WordChars

\* the regex class [.!?]
IsPunct(c) == c \in PunctChars

\* length of the run of \s characters of t that starts at index j (a greedy
\* \s* tried at j)
RECURSIVE SpacesAt(_, _)
SpacesAt(t, j) ==
    IF j > Len(t) \/ ~IsSpace(t[j]) THEN 0 ELSE 1 + SpacesAt(t, j + 1)

\* length of the run of \s characters of t that ends at index j
RECURSIVE SpacesUpTo(_, _)
SpacesUpTo(t, j) ==
    IF j < 1 \/ ~IsSpace(t[j]) THEN 0 ELSE 1 + SpacesUpTo(t, j - 1)

Drop(t, n) == SubSeq(t, n + 1, Len(t))

\* n copies of the character c
Rep(c, n) == [i \in 1..n |-> c]

\* the concatenation of the pieces p[lo], ..., p[hi]
RECURSIVE Flatten(_, _, _)
Flatten(p, lo, hi) ==
    IF lo > hi THEN <<>>
    ELSE IF lo = hi THEN p[lo]
    ELSE LET mid == (lo + hi) \div 2
         IN  Flatten(p, lo, mid) \o Flatten(p, mid + 1, hi)

\* a substitution that rewrites every character on its own: the text made of
\* what each index contributes
Rewrite(t, Piece(_)) == Flatten([i \in DOMAIN t |-> Piece(i)], 1, Len(t))

----------------------------------------------------------------------------
(* parsers/pdf_extractor.py: clean_text *)

\* re.sub(r'\s+', ' ', text): the first character of a run of \s becomes one
\* space, the others go
SubWhitespace(t) ==
    Rewrite(t, LAMBDA i :
        IF ~IsSpace(t[i]) THEN <<t[i]>>
        ELSE IF i > 1 /\ IsSpace(t[i - 1]) THEN <<>> ELSE <<" ">>)

\* re.sub(r'\r\n', '\n', text)
SubCrLf(t) ==
    Rewrite(t, LAMBDA i :
        IF t[i] = "\r" /\ i < Len(t) /\ t[i + 1] = "\n" THEN <<>> ELSE <<t[i]>>)

\* re.sub(r'\n{3,}', '\n\n', text): of a run of three or more newlines the
\* first two stay
SubNewlines(t) ==
    Rewrite(t, LAMBDA i :
        IF t[i] = "\n" /\ i >= 3 /\ t[i - 1] = "\n" /\ t[i - 2] = "\n"
        THEN <<>> ELSE <<t[i]>>)

\* r'([.!?])\s*(\w)' matches at index i
PunctMatchAt(t, i) ==
    /\ i >= 1
    /\ i <= Len(t)
    /\ IsPunct(t[i])
    /\ LET j == i + 1 + SpacesAt(t, i + 1)
       IN  j <= Len(t) /\ IsWord(t[j])

\* re.sub(r'([.!?])\s*(\w)', r'\1 \2', text): two matches never overlap, so
\* every matching punctuation mark is followed by one space and the \s run
\* behind it goes
SubPunct(t) ==
    Rewrite(t, LAMBDA i :
        IF PunctMatchAt(t, i) THEN <<t[i], " ">>
        ELSE IF IsSpace(t[i]) /\ PunctMatchAt(t, i - SpacesUpTo(t, i))
             THEN <<>>
             ELSE <<t[i]>>)

\* whether the keyword kw stands in t at index j, ignoring case
KeywordAt(t, j, kw) ==
    /\ j + Len(kw) - 1 <= Len(t)
    /\ \A i \in DOMAIN kw : Lower(t[j + i - 1]) = Lower(kw[i])

\* index of the character that group 3 of the section pattern takes when the
\* pattern is tried with group 1 at index i (the keyword starts with a letter,
\* so each \s* takes its whole run)
SectionEnd(t, i, section) ==
    LET j == i + 1 + SpacesAt(t, i + 1)
        e == j + Len(section)
    IN  e + SpacesAt(t, e)

\* r'(\w)(\s*' + section + r'\s*)(\w)' with re.IGNORECASE matches at index i
SectionMatchAt(t, i, section) ==
    /\ IsWord(t[i])
    /\ KeywordAt(t, i + 1 + SpacesAt(t, i + 1), section)
    /\ SectionEnd(t, i, section) <= Len(t)
    /\ IsWord(t[SectionEnd(t, i, section)])

\* pattern.sub(r'\1\n\n\2\n\n\3', text) from index p on: the leftmost match at
\* or after p is rewritten and the scan goes on behind it
RECURSIVE SubSectionFrom(_, _, _, _)
SubSectionFrom(t, section, matches, p) ==
    LET ahead == { i \in matches : i >= p }
    IN  IF ahead = {} THEN SubSeq(t, p, Len(t))
        ELSE LET i == CHOOSE x \in ahead : \A y \in ahead : x <= y
                 e == SectionEnd(t, i, section)
             IN  SubSeq(t, p, i) \o <<"\n", "\n">> \o SubSeq(t, i + 1, e - 1)
                   \o <<"\n", "\n", t[e]>>
                   \o SubSectionFrom(t, section, matches, e + 1)

\* re.compile(r'(\w)(\s*' + section + r'\s*)(\w)', re.IGNORECASE)
\*   .sub(r'\1\n\n\2\n\n\3', text)
\* (a match has the keyword's first letter somewhere behind group 1)
SubSection(t, section) ==
    LET starts  == { j \in DOMAIN t : Lower(t[j]) = section[1] }
        matches == { i \in DOMAIN t :
                       /\ starts # {}
                       /\ SectionMatchAt(t, i, section) }
    IN  SubSectionFrom(t, section, matches, 1)

\* the list `sections` of clean_text, in its order
CleanSections ==
    << <<"e","d","u","c","a","t","i","o","n">>,
       <<"e","x","p","e","r","i","e","n","c","e">>,
       <<"s","k","i","l","l","s">>,
       <<"w","o","r","k"," ","h","i","s","t","o","r","y">>,
       <<"p","r","o","j","e","c","t","s">>,
       <<"c","e","r","t","i","f","i","c","a","t","i","o","n","s">>,
       <<"a","c","h","i","e","v","e","m","e","n","t","s">>,
       <<"s","u","m","m","a","r","y">>,
       <<"o","b","j","e","c","t","i","v","e">> >>

\* for section in sections: text = pattern.sub(...), from the i-th on
RECURSIVE SubSectionsFrom(_, _)
SubSectionsFrom(t, i) ==
    IF i > Len(CleanSections) THEN t
    ELSE SubSectionsFrom(SubSection(t, CleanSections[i]), i + 1)

\* str.strip()
Strip(t) ==
    SubSeq(t, 1 + SpacesAt(t, 1), Len(t) - SpacesUpTo(t, Len(t)))

clean_text(text) ==
    IF text = <<>> THEN <<>>
    ELSE Strip(SubSectionsFrom(
                 SubPunct(SubNewlines(SubCrLf(SubWhitespace(text)))), 1))

----------------------------------------------------------------------------
(* parsers/pdf_extractor.py: the extraction backends *)

\* the threshold below which the text layer counts as "little content"
MIN_CONTENT == 100

\* text += page_text + "\n\n", for every page
RECURSIVE JoinPages(_)
JoinPages(pages) ==
    IF pages = <<>> THEN <<>>
    ELSE Head(pages) \o <<"\n", "\n">> \o JoinPages(Tail(pages))

\* what a function call hands back: a value, or an exception
Returned(v) == [raised |-> FALSE, exc |-> "", value |-> v]

Raised(e) == [raised |-> TRUE, exc |-> e, value |-> <<>>]

\* A backend's library call either yields its output (ok) or throws (~ok):
\*   PyPDF2.PdfReader(file) ... extract_text()   [ok, pages]
\*   pdfminer_extract_text(pdf_path)             [ok, text]
\*   convert_from_path / image_to_string         [ok, pages]

\* try: ... return text / except Exception: return ""
extract_with_pypdf2(lib) ==
    IF lib.ok THEN Returned(JoinPages(lib.pages)) ELSE Returned(<<>>)

\* faulty variant: the library's exception is not caught
extract_with_pdfminer_unguarded(lib) ==
    IF lib.ok THEN Returned(lib.text) ELSE Raised("PDFSyntaxError")

\* try: return pdfminer_extract_text(pdf_path) / except Exception: return ""
extract_with_pdfminer(lib) ==
    IF lib.ok THEN Returned(lib.text) ELSE Returned(<<>>)

\* if not OCR_AVAILABLE: return "" / try: ... / except Exception: return ""
extract_with_ocr(OCR_AVAILABLE, lib) ==
    IF ~OCR_AVAILABLE THEN Returned(<<>>)
    ELSE IF lib.ok THEN Returned(JoinPages(lib.pages)) ELSE Returned(<<>>)

----------------------------------------------------------------------------
(* parsers/pdf_extractor.py: extract_text_from_pdf *)

\* the tuple (text, len(text), method)
Candidate(text, method) ==
    [text |-> text, length |-> Len(text), method |-> method]

Max(a, b) == IF a >= b THEN a ELSE b

\* one insertion of the stable descending sort: x goes behind every entry at
\* least as long as it
\* faulty variant: an entry of equal length is put in front, so the sort is
\* not stable
RECURSIVE InsertDescUnstable(_, _)
InsertDescUnstable(sorted, x) ==
    IF sorted = <<>> THEN <<x>>
    ELSE IF Head(sorted).length > x.length
         THEN <<Head(sorted)>> \o InsertDescUnstable(Tail(sorted), x)
         ELSE <<x>> \o sorted

RECURSIVE InsertDesc(_, _)
InsertDesc(sorted, x) ==
    IF sorted = <<>> THEN <<x>>
    ELSE IF Head(sorted).length >= x.length
         THEN <<Head(sorted)>> \o InsertDesc(Tail(sorted), x)
         ELSE <<x>> \o sorted

\* texts.sort(key=lambda x: x[1], reverse=True): list.sort is stable, and
\* reverse=True keeps entries of equal key in their original order
RECURSIVE SortByLengthDesc(_)
SortByLengthDesc(texts) ==
    IF texts = <<>> THEN <<>>
    ELSE InsertDesc(SortByLengthDesc(SubSeq(texts, 1, Len(texts) - 1)),
                    texts[Len(texts)])

\* faulty variant: one short text-layer candidate is enough to ask for OCR
LittleContentEither(pypdf2_text, pdfminer_text) ==
    Len(pypdf2_text) < MIN_CONTENT \/ Len(pdfminer_text) < MIN_CONTENT

\* the condition of both branches of the if/elif
LittleContent(pypdf2_text, pdfminer_text) ==
    Max(Len(pypdf2_text), Len(pdfminer_text)) < MIN_CONTENT

\* the result of extract_text_from_pdf, with what it printed (log) and the
\* candidate list before (candidates) and after (texts) the sort
PdfResult(r, candidates, texts, log) ==
    [raised |-> r.raised, exc |-> r.exc, value |-> r.value,
     candidates |-> candidates, texts |-> texts, log |-> log]

\* lines 64-77: sort, pick texts[0][0], clean
SelectAndClean(candidates, log) ==
    LET texts     == SortByLengthDesc(candidates)
        best_text == texts[1].text
    IN  PdfResult(Returned(clean_text(best_text)), candidates, texts, log)

\* faulty variant: too little content without OCR is treated as an error
WithFallbackRaising(pypdf2_text, pdfminer_text, OCR_AVAILABLE, ocr_lib) ==
    LET texts == << Candidate(pypdf2_text, "PyPDF2"),
                    Candidate(pdfminer_text, "pdfminer.six") >>
    IN  IF LittleContent(pypdf2_text, pdfminer_text) /\ OCR_AVAILABLE
        THEN LET o == extract_with_ocr(OCR_AVAILABLE, ocr_lib)
             IN  IF o.raised
                 THEN PdfResult(Raised(o.exc), texts, <<>>, <<"trying_ocr">>)
                 ELSE SelectAndClean(Append(texts, Candidate(o.value, "OCR")),
                                     <<"trying_ocr">>)
        ELSE IF LittleContent(pypdf2_text, pdfminer_text)
             THEN PdfResult(Raised("ValueError"), texts, <<>>,
                            <<"warning_no_ocr">>)
             ELSE SelectAndClean(texts, <<>>)

\* lines 50-62: the candidate list, the OCR fallback or the warning
WithFallback(pypdf2_text, pdfminer_text, OCR_AVAILABLE, ocr_lib) ==
    LET texts == << Candidate(pypdf2_text, "PyPDF2"),
                    Candidate(pdfminer_text, "pdfminer.six") >>
    IN  IF LittleContent(pypdf2_text, pdfminer_text) /\ OCR_AVAILABLE
        THEN LET o == extract_with_ocr(OCR_AVAILABLE, ocr_lib)
             IN  IF o.raised
                 THEN PdfResult(Raised(o.exc), texts, <<>>, <<"trying_ocr">>)
                 ELSE SelectAndClean(Append(texts, Candidate(o.value, "OCR")),
                                     <<"trying_ocr">>)
        ELSE IF LittleContent(pypdf2_text, pdfminer_text)
             THEN SelectAndClean(texts, <<"warning_no_ocr">>)
             ELSE SelectAndClean(texts, <<>>)

\* doc: what each backend's library call does on the file at pdf_path
extract_text_from_pdf(exists, OCR_AVAILABLE, doc) ==
    IF ~exists
    THEN PdfResult(Raised("FileNotFoundError"), <<>>, <<>>, <<>>)
    ELSE LET p == extract_with_pypdf2(doc.pypdf2)
             m == extract_with_pdfminer(doc.pdfminer)
         IN  IF p.raised THEN PdfResult(Raised(p.exc), <<>>, <<>>, <<>>)
             ELSE IF m.raised THEN PdfResult(Raised(m.exc), <<>>, <<>>, <<>>)
             ELSE WithFallback(p.value, m.value, OCR_AVAILABLE, doc.ocr)

----------------------------------------------------------------------------
(* The documents the model draws *)

\* characters of a short text: a word character, a space, a full stop
PageChars == {"a", " ", "."}

ShortTexts == UNION { [1..n -> PageChars] : n \in 0..MaxLen }

\* texts around the content threshold: PyPDF2 and OCR add "\n\n" to a page
LongPages == { Rep("x", n) : n \in (MIN_CONTENT - 3)..(MIN_CONTENT - 2) }

LongTexts == { Rep("x", n) : n \in (MIN_CONTENT - 1)..MIN_CONTENT }

\* a document of no page or of one page
PageLists == {<<>>} \cup { <<t>> : t \in ShortTexts \cup LongPages }

PagedOutcomes ==
    { [ok |-> FALSE, pages |-> <<>>] }
      \cup { [ok |-> TRUE, pages |-> p] : p \in PageLists }

TextOutcomes ==
    { [ok |-> FALSE, text |-> <<>>] }
      \cup { [ok |-> TRUE, text |-> t] : t \in ShortTexts \cup LongTexts }

\* what OCR reads from the page images: letters and spaces
OcrTexts == UNION { [1..n -> {"a", " "}] : n \in 0..MaxLen }

OcrOutcomes ==
    { [ok |-> FALSE, pages |-> <<>>], [ok |-> TRUE, pages |-> <<>>] }
      \cup { [ok |-> TRUE, pages |-> <<t>>] : t \in OcrTexts \cup LongPages }

\* the OCR backend's outcome when the backend is never called
NotCalled == [ok |-> FALSE, pages |-> <<>>]

\* OCR is called only on this condition: its outcome is drawn only then
OcrCalled(exists, OCR_AVAILABLE, pypdf2, pdfminer) ==
    /\ exists
    /\ OCR_AVAILABLE
    /\ LittleContent(extract_with_pypdf2(pypdf2).value,
                     extract_with_pdfminer(pdfminer).value)

----------------------------------------------------------------------------
(* parsers/resume_parser.py: values of the parsed data *)

\* A Python value: a str (items holds its characters), a list of str (items
\* holds each entry's characters), an int (items holds its digits), PyNone, or
\* a dict (keys holds its keys)
PyStr(chars) == [kind |-> "str", items |-> <<chars>>, keys |-> {}]

PyList(entries) == [kind |-> "list", items |-> entries, keys |-> {}]

PyInt(digits) == [kind |-> "int", items |-> <<digits>>, keys |-> {}]

PyNone == [kind |-> "none", items |-> <<>>, keys |-> {}]

PyDict(ks) == [kind |-> "dict", items |-> <<>>, keys |-> ks]

\* bool(v)
Truthy(v) ==
    CASE v.kind = "str"  -> v.items[1] # <<>>
      [] v.kind = "list" -> v.items # <<>>
      [] v.kind = "int"  -> v.items[1] # <<"0">>
      [] v.kind = "dict" -> v.keys # {}
      [] OTHER           -> FALSE

\* the empty dict, and d[k] = v
EmptyDict == [k \in {} |-> PyNone]

Put(d, k, v) == [x \in DOMAIN d \cup {k} |-> IF x = k THEN v ELSE d[x]]

\* result.update(data)
Update(result, data) ==
    [x \in DOMAIN result \cup DOMAIN data |->
        IF x \in DOMAIN data THEN data[x] ELSE result[x]]

\* the fields of ParsedResume
ScalarFields ==
    {"name", "email", "phone", "linkedin", "location", "years_of_experience",
     "summary"}

ListFields ==
    {"websites", "skills", "industry", "job_titles", "education", "experience",
     "projects", "certifications", "achievements", "publications", "languages",
     "volunteer", "timeline"}

ResumeFields == ScalarFields \cup ListFields

----------------------------------------------------------------------------
(* parsers/resume_parser.py: extract_from_text *)

\* A text as the field rules see it: whether it is PyNone, its length, the
\* rules whose pattern occurs in it (found), the places whose library call
\* throws on it (throws), and the characters of the stretch in which terms of
\* the skills dictionary and key-value lines can occur (chars; the rest of
\* the text is lines of digits).

\* the fields that the section scan fills, one per header found
SectionFields ==
    {"summary", "education", "experience", "projects", "certifications",
     "achievements", "publications", "languages", "volunteer"}

\* the fields with one regex or dictionary rule each
SimpleRules ==
    <<"email", "phone", "linkedin", "websites", "location">>

\* what a text can hold: "name" is the regex at the start of the text,
\* "name_ner" a PERSON entity of the first paragraph
Features ==
    {"name", "name_ner", "email", "phone", "linkedin", "websites", "location",
     "industry", "timeline", "years_of_experience", "job_titles"}
      \cup SectionFields

\* the places of extract_from_text where a call can throw
ThrowSites ==
    {"name_regex", "name_ner", "email", "phone", "linkedin", "websites",
     "location", "skills", "industry", "timeline", "years_regex", "years_int",
     "job_titles", "sections"}

\* what a rule stores when its pattern occurs
Sample(field) ==
    IF field = "years_of_experience" THEN PyInt(<<"5">>)
    ELSE IF field \in ScalarFields THEN PyStr(<<"v">>)
    ELSE PyList(<< <<"v">> >>)

\* a step of extract_from_text: the dict so far, or the exception that ended it
Going(result) == [raised |-> FALSE, exc |-> "", value |-> result]

\* a rule outside any try block: a throw leaves the function
Unguarded(acc, text, site, field) ==
    IF acc.raised THEN acc
    ELSE IF site \in text.throws THEN Raised("Exception")
    ELSE IF field \in text.found
         THEN Going(Put(acc.value, field, Sample(field)))
         ELSE acc

\* lines 113-134: the name regex, else the NER fallback inside try/except
NameRule(acc, text) ==
    IF acc.raised THEN acc
    ELSE IF "name_regex" \in text.throws THEN Raised("Exception")
    ELSE IF "name" \in text.found
         THEN Going(Put(acc.value, "name", Sample("name")))
         ELSE IF "name_ner" \in text.throws THEN acc
              ELSE IF "name_ner" \in text.found
                   THEN Going(Put(acc.value, "name", Sample("name")))
                   ELSE acc

\* lines 136-170: email, phone, linkedin, websites, location, from the i-th on
RECURSIVE SimpleRulesFrom(_, _, _)
SimpleRulesFrom(acc, text, i) ==
    IF i > Len(SimpleRules) THEN acc
    ELSE SimpleRulesFrom(Unguarded(acc, text, SimpleRules[i], SimpleRules[i]),
                         text, i + 1)

\* all_skills = tech_skills + business_skills + industry_skills, lines
\* 176-299: six of its 460 entries in their order, "Kotlin" being listed
\* twice (lines 178 and 202)
all_skills ==
    << <<"C", "+", "+">>, <<"G", "o">>, <<"K", "o", "t", "l", "i", "n">>,
       <<"R">>, <<"S", "Q", "L">>, <<"K", "o", "t", "l", "i", "n">> >>

\* the regex assertion \b between t[p - 1] and t[p]
WordBoundary(t, p) ==
    (p - 1 \in DOMAIN t /\ IsWord(t[p - 1])) # (p \in DOMAIN t /\ IsWord(t[p]))

\* r'\b' + re.escape(skill) + r'\b' with re.IGNORECASE matches t at index i
SkillMatchAt(t, i, skill) ==
    /\ i + Len(skill) - 1 <= Len(t)
    /\ \A k \in DOMAIN skill : Lower(t[i + k - 1]) = Lower(skill[k])
    /\ WordBoundary(t, i)
    /\ WordBoundary(t, i + Len(skill))

\* lines 301-304: the entries of all_skills that re.search finds, in the
\* order of all_skills, an entry listed twice being appended twice
FoundSkills(t) ==
    SelectSeq(all_skills,
              LAMBDA skill : \E i \in DOMAIN t : SkillMatchAt(t, i, skill))

\* A hash seed (PYTHONHASHSEED, drawn at random when the interpreter starts)
\* fixes the order in which a set of str is iterated: the seed is given as
\* the sequence of all terms in that order.
DictionaryOrder ==
    << <<"C", "+", "+">>, <<"G", "o">>, <<"K", "o", "t", "l", "i", "n">>,
       <<"R">>, <<"S", "Q", "L">> >>

HashSeeds ==
    { DictionaryOrder,
      [i \in DOMAIN DictionaryOrder |->
          DictionaryOrder[Len(DictionaryOrder) + 1 - i]] }

\* list(set(entries)) under a hash seed
ListOfSet(entries, hashseed) ==
    SelectSeq(hashseed, LAMBDA e : e \in Range(entries))

\* lines 172-306: result['skills'] = list(set(skills)) is always set
SkillsRule(acc, text, hashseed) ==
    IF acc.raised THEN acc
    ELSE IF "skills" \in text.throws THEN Raised("Exception")
    ELSE Going(Put(acc.value, "skills",
                   PyList(ListOfSet(FoundSkills(text.chars), hashseed))))

\* lines 333-340: the regex, then int() inside try/except
YearsRule(acc, text) ==
    IF acc.raised THEN acc
    ELSE IF "years_regex" \in text.throws THEN Raised("Exception")
    ELSE IF "years_of_experience" \in text.found
            /\ "years_int" \notin text.throws
         THEN Going(Put(acc.value, "years_of_experience",
                        Sample("years_of_experience")))
         ELSE acc

\* str.lower()
LowerStr(chars) == [i \in DOMAIN chars |-> Lower(chars[i])]

\* section_headers, lines 364-369
section_headers ==
    << <<"e", "d", "u", "c", "a", "t", "i", "o", "n">>,
       <<"e", "x", "p", "e", "r", "i", "e", "n", "c", "e">>,
       <<"w", "o", "r", "k", " ", "e", "x", "p", "e", "r", "i", "e", "n", "c", "e">>,
       <<"e", "m", "p", "l", "o", "y", "m", "e", "n", "t">>,
       <<"s", "k", "i", "l", "l", "s">>,
       <<"p", "r", "o", "j", "e", "c", "t", "s">>,
       <<"c", "e", "r", "t", "i", "f", "i", "c", "a", "t", "i", "o", "n", "s">>,
       <<"a", "c", "h", "i", "e", "v", "e", "m", "e", "n", "t", "s">>,
       <<"a", "w", "a", "r", "d", "s">>,
       <<"p", "u", "b", "l", "i", "c", "a", "t", "i", "o", "n", "s">>,
       <<"s", "u", "m", "m", "a", "r", "y">>,
       <<"o", "b", "j", "e", "c", "t", "i", "v", "e">>,
       <<"p", "r", "o", "f", "e", "s", "s", "i", "o", "n", "a", "l", " ", "s", "u", "m", "m", "a", "r", "y">>,
       <<"p", "r", "o", "f", "i", "l", "e">>,
       <<"a", "b", "o", "u", "t">>,
       <<"l", "a", "n", "g", "u", "a", "g", "e", "s">>,
       <<"v", "o", "l", "u", "n", "t", "e", "e", "r">>,
       <<"i", "n", "t", "e", "r", "e", "s", "t", "s">>,
       <<"a", "c", "t", "i", "v", "i", "t", "i", "e", "s">>,
       <<"r", "e", "f", "e", "r", "e", "n", "c", "e", "s">> >>

\* text.split('\n')
Split(t) ==
    LET nl == { i \in DOMAIN t : t[i] = "\n" }
        Nth(k) == CHOOSE i \in nl : Cardinality({ j \in nl : j < i }) = k - 1
        n == Cardinality(nl) + 1
    IN  [k \in 1..n |->
           SubSeq(t, IF k = 1 THEN 1 ELSE Nth(k - 1) + 1,
                     IF k = n THEN Len(t) ELSE Nth(k) - 1)]

\* `h in line`
Within(h, line) ==
    \E i \in 1..(Len(line) - Len(h) + 1) :
       SubSeq(line, i, i + Len(h) - 1) = h

\* the headers that re.search finds in the line, by their place in
\* section_headers; the loop breaks at the first
HeadersIn(line) ==
    { k \in DOMAIN section_headers :
        \E i \in DOMAIN line : SkillMatchAt(line, i, section_headers[k]) }

FirstHeaderIn(line) ==
    section_headers[CHOOSE k \in HeadersIn(line) :
                       \A j \in HeadersIn(line) : k <= j]

\* one pass of the loop over the lines, lines 373-383: a header line sets
\* current_section and sections[current_section] = []; a non-blank line in
\* which no header name occurs as a substring is appended
ScanLine(st, line) ==
    LET current_section == IF HeadersIn(line) # {} THEN FirstHeaderIn(line)
                           ELSE st.current_section
        sections == IF HeadersIn(line) # {}
                    THEN Put(st.sections, current_section, <<>>)
                    ELSE st.sections
    IN  [current_section |-> current_section,
         sections |->
           IF /\ current_section # <<>>
              /\ Strip(line) # <<>>
              /\ ~\E k \in DOMAIN section_headers :
                     Within(section_headers[k], LowerStr(line))
           THEN [sections EXCEPT ![current_section] = Append(@, Strip(line))]
           ELSE sections]

RECURSIVE ScanFrom(_, _, _)
ScanFrom(st, lines, i) ==
    IF i > Len(lines) THEN st
    ELSE ScanFrom(ScanLine(st, lines[i]), lines, i + 1)

\* the dict `sections` after the loop; current_section = None is <<>>
ScanSections(t) ==
    ScanFrom([current_section |-> <<>>, sections |-> EmptyDict],
             Split(t), 1).sections

\* ' '.join(entries)
RECURSIVE JoinSpace(_)
JoinSpace(entries) ==
    IF entries = <<>> THEN <<>>
    ELSE IF Len(entries) = 1 THEN entries[1]
    ELSE entries[1] \o <<" ">> \o JoinSpace(Tail(entries))

\* the section names each field is read from, in the order next() tries
\* them, lines 386-416
SectionKeys(field) ==
    CASE field = "summary" ->
           << <<"s", "u", "m", "m", "a", "r", "y">>,
              <<"p", "r", "o", "f", "i", "l", "e">>,
              <<"a", "b", "o", "u", "t">>,
              <<"o", "b", "j", "e", "c", "t", "i", "v", "e">>,
              <<"p", "r", "o", "f", "e", "s", "s", "i", "o", "n", "a", "l", " ", "s", "u", "m", "m", "a", "r", "y">> >>
      [] field = "experience" ->
           << <<"e", "x", "p", "e", "r", "i", "e", "n", "c", "e">>,
              <<"w", "o", "r", "k", " ", "e", "x", "p", "e", "r", "i", "e", "n", "c", "e">>,
              <<"e", "m", "p", "l", "o", "y", "m", "e", "n", "t">> >>
      [] field = "achievements" ->
           << <<"a", "c", "h", "i", "e", "v", "e", "m", "e", "n", "t", "s">>, <<"a", "w", "a", "r", "d", "s">> >>
      [] field = "education" -> << <<"e", "d", "u", "c", "a", "t", "i", "o", "n">> >>
      [] field = "projects" -> << <<"p", "r", "o", "j", "e", "c", "t", "s">> >>
      [] field = "certifications" -> << <<"c", "e", "r", "t", "i", "f", "i", "c", "a", "t", "i", "o", "n", "s">> >>
      [] field = "publications" -> << <<"p", "u", "b", "l", "i", "c", "a", "t", "i", "o", "n", "s">> >>
      [] field = "languages" -> << <<"l", "a", "n", "g", "u", "a", "g", "e", "s">> >>
      [] field = "volunteer" -> << <<"v", "o", "l", "u", "n", "t", "e", "e", "r">> >>

\* the fields the scan fills: each from the first of its section names that
\* is in sections, summary as one str
ProcessSections(result, sections) ==
    LET Has(f) == \E k \in DOMAIN SectionKeys(f) :
                     SectionKeys(f)[k] \in DOMAIN sections
        Key(f) == SectionKeys(f)[CHOOSE k \in DOMAIN SectionKeys(f) :
                     /\ SectionKeys(f)[k] \in DOMAIN sections
                     /\ \A j \in 1..(k - 1) :
                           SectionKeys(f)[j] \notin DOMAIN sections]
        filled == { f \in SectionFields : Has(f) }
    IN  [f \in DOMAIN result \cup filled |->
           IF f \notin filled THEN result[f]
           ELSE IF f = "summary" THEN PyStr(JoinSpace(sections[Key(f)]))
           ELSE PyList(sections[Key(f)])]

\* lines 362-416: the section scan and the fields it fills, from the marks
\* of the text and from the headers in its characters
SectionsRule(acc, text) ==
    IF acc.raised THEN acc
    ELSE IF "sections" \in text.throws THEN Raised("Exception")
    ELSE Going(ProcessSections(
                 [k \in DOMAIN acc.value \cup (SectionFields \cap text.found) |->
                    IF k \in SectionFields \cap text.found THEN Sample(k)
                    ELSE acc.value[k]],
                 ScanSections(text.chars)))

\* re.sub(r'\s+', ' ', item).strip() of every entry, empty entries dropped
CleanEntries(entries) ==
    SelectSeq([i \in DOMAIN entries |-> Strip(SubWhitespace(entries[i]))],
              LAMBDA e : e # <<>>)

\* lines 418-428: clean all text sections
CleanLists(acc) ==
    IF acc.raised THEN acc
    ELSE Going([k \in DOMAIN acc.value |->
                  IF acc.value[k].kind = "list"
                  THEN PyList(CleanEntries(acc.value[k].items))
                  ELSE acc.value[k]])

\* `not text`
FalsyText(text) == text.none \/ text.len = 0

extract_from_text(text, hashseed) ==
    IF FalsyText(text) THEN Returned(EmptyDict)
    ELSE LET r1 == NameRule(Going(EmptyDict), text)
             r2 == SimpleRulesFrom(r1, text, 1)
             r3 == SkillsRule(r2, text, hashseed)
             r4 == Unguarded(r3, text, "industry", "industry")
             r5 == Unguarded(r4, text, "timeline", "timeline")
             r6 == YearsRule(r5, text)
             r7 == Unguarded(r6, text, "job_titles", "job_titles")
             r8 == SectionsRule(r7, text)
         IN  CleanLists(r8)

----------------------------------------------------------------------------
(* parsers/resume_parser.py: clean_parsed_data *)

\* faulty variant: the default for summary is forgotten
DefaultsWithoutSummary ==
    [k \in {"name", "email", "phone", "skills", "experience", "education"} |->
        IF k \in {"skills", "experience", "education"} THEN PyList(<<>>)
        ELSE PyStr(<<>>)]

\* the dict that clean_parsed_data starts from
Defaults ==
    [k \in {"name", "email", "phone", "skills", "experience", "education",
            "summary"} |->
        IF k \in {"skills", "experience", "education"} THEN PyList(<<>>)
        ELSE PyStr(<<>>)]

\* what `for skill in result['skills']` iterates: the entries of a list, the
\* characters of a str
Iterate(v) ==
    IF v.kind = "list" THEN v.items
    ELSE [i \in DOMAIN v.items[1] |-> <<v.items[1][i]>>]

\* the loop that fills unique_skills, from the i-th entry on
RECURSIVE UniqueFrom(_, _, _)
UniqueFrom(entries, unique_skills, i) ==
    IF i > Len(entries) THEN unique_skills
    ELSE UniqueFrom(entries,
                    IF \E j \in DOMAIN unique_skills :
                         LowerStr(unique_skills[j]) = LowerStr(entries[i])
                    THEN unique_skills
                    ELSE Append(unique_skills, entries[i]),
                    i + 1)

\* lines 456-465: clean skills; an int or a dict of other values cannot be
\* iterated as strings
CleanSkills(result) ==
    IF ~Truthy(result["skills"]) THEN Going(result)
    ELSE IF result["skills"].kind \notin {"list", "str"}
         THEN Raised("TypeError")
         ELSE Going(Put(result, "skills",
                        PyList(UniqueFrom(Iterate(result["skills"]), <<>>, 1))))

\* str(value)
ToStr(v) == IF v.kind \in {"str", "int"} THEN v.items[1] ELSE <<"{", "}">>

\* lines 467-473: experience and education become lists
CoerceList(result, field) ==
    IF result[field].kind = "list" THEN result
    ELSE IF Truthy(result[field])
         THEN Put(result, field, PyList(<<ToStr(result[field])>>))
         ELSE Put(result, field, PyList(<<>>))

clean_parsed_data(data) ==
    LET r == CleanSkills(Update(Defaults, data))
    IN  IF r.raised THEN r
        ELSE Returned(CoerceList(CoerceList(r.value, "experience"),
                                 "education"))

----------------------------------------------------------------------------
(* parsers/resume_parser.py: extract_key_value_pairs *)

\* a float, items holding the characters of the number it was read from
PyFloat(chars) == [kind |-> "float", items |-> <<chars>>, keys |-> {}]

\* the class [A-Za-z\s] of the key group
KeyChars == Range(LowerSeq) \cup UpperChars \cup SpaceChars

\* the keys that are skipped and the keys whose values are read as numbers
StopKeys ==
    { <<"a", "n", "d">>, <<"t", "h", "e">>, <<"f", "o", "r">>,
      <<"w", "i", "t", "h">>, <<"f", "r", "o", "m">>, <<"t", "o">> }

NumericKeys ==
    { <<"a", "g", "e">>, <<"y", "e", "a", "r", "s">>,
      <<"s", "a", "l", "a", "r", "y">>, <<"g", "p", "a">>,
      <<"s", "c", "o", "r", "e">> }

\* longest key the loop keeps
MAX_KEY_LEN == 30

\* the last index of the run of characters that satisfy In(_) and starts at p
RunEnd(t, p, In(_)) ==
    CHOOSE e \in p..Len(t) :
        /\ \A k \in p..e : In(t[k])
        /\ e = Len(t) \/ ~In(t[e + 1])

\* where the value group can start when \s* is tried at index from: after
\* the whole run of whitespace or, giving characters back, inside it, on a
\* character that is neither the separator nor a newline
ValueStarts(t, sep, from) ==
    { q \in from..(from + SpacesAt(t, from)) :
        q <= Len(t) /\ t[q] \notin {sep, "\n"} }

\* ([A-Za-z\s]+) sep \s* ([^sep\n]+) matches t from index p: the greedy key
\* group takes the whole run, which the separator must follow
KvMatchAt(t, sep, p) ==
    /\ t[p] \in KeyChars
    /\ LET e == RunEnd(t, p, LAMBDA c : c \in KeyChars)
       IN  /\ e + 1 <= Len(t)
           /\ t[e + 1] = sep
           /\ ValueStarts(t, sep, e + 2) # {}

\* float(re.search(r'\d+(\.\d+)?', value).group(0)); a value without digit
\* is kept as it is (the bare except)
ToNumber(value) ==
    IF \A i \in DOMAIN value : value[i] \notin Digits THEN PyStr(value)
    ELSE LET d == CHOOSE i \in DOMAIN value :
                     /\ value[i] \in Digits
                     /\ \A j \in 1..(i - 1) : value[j] \notin Digits
             e == RunEnd(value, d, LAMBDA c : c \in Digits)
         IN  IF e + 2 <= Len(value) /\ value[e + 1] = "."
                  /\ value[e + 2] \in Digits
             THEN PyFloat(SubSeq(value, d,
                                 RunEnd(value, e + 2, LAMBDA c : c \in Digits)))
             ELSE PyFloat(SubSeq(value, d, e))

\* the body of the loop over the matches, lines 621-646
WithPair(pairs, key, value) ==
    IF key \in StopKeys \/ Len(key) > MAX_KEY_LEN \/ value = <<>> THEN pairs
    ELSE Put(pairs, key, IF key \in NumericKeys THEN ToNumber(value)
                         ELSE PyStr(value))

\* re.finditer(pattern, text), from index pos on: the leftmost match, its
\* pair, then the matches after its end
RECURSIVE KvScan(_, _, _, _)
KvScan(t, sep, pos, pairs) ==
    LET starts == { p \in pos..Len(t) : KvMatchAt(t, sep, p) }
    IN  IF starts = {} THEN pairs
        ELSE LET p == CHOOSE x \in starts : \A y \in starts : x <= y
                 e == RunEnd(t, p, LAMBDA c : c \in KeyChars)
                 qs == ValueStarts(t, sep, e + 2)
                 q == CHOOSE x \in qs : \A y \in qs : y <= x
                 v == RunEnd(t, q, LAMBDA c : c \notin {sep, "\n"})
             IN  KvScan(t, sep, v + 1,
                        WithPair(pairs, LowerStr(Strip(SubSeq(t, p, e))),
                                 Strip(SubSeq(t, q, v))))

\* the pairs of "key: value", then of "key - value", later ones replacing
\* earlier ones of the same key
extract_key_value_pairs(text) ==
    KvScan(text, "-", 1, KvScan(text, ":", 1, EmptyDict))

----------------------------------------------------------------------------
(* parsers/resume_parser.py: detect_custom_sections *)

\* standard_sections, lines 555-561
standard_sections ==
    << <<"e", "d", "u", "c", "a", "t", "i", "o", "n">>,
       <<"e", "x", "p", "e", "r", "i", "e", "n", "c", "e">>,
       <<"w", "o", "r", "k", " ", "e", "x", "p", "e", "r", "i", "e", "n", "c", "e">>,
       <<"e", "m", "p", "l", "o", "y", "m", "e", "n", "t">>,
       <<"s", "k", "i", "l", "l", "s">>,
       <<"p", "r", "o", "j", "e", "c", "t", "s">>,
       <<"c", "e", "r", "t", "i", "f", "i", "c", "a", "t", "i", "o", "n", "s">>,
       <<"a", "c", "h", "i", "e", "v", "e", "m", "e", "n", "t", "s">>,
       <<"a", "w", "a", "r", "d", "s">>,
       <<"p", "u", "b", "l", "i", "c", "a", "t", "i", "o", "n", "s">>,
       <<"s", "u", "m", "m", "a", "r", "y">>,
       <<"o", "b", "j", "e", "c", "t", "i", "v", "e">>,
       <<"p", "r", "o", "f", "e", "s", "s", "i", "o", "n", "a", "l", " ", "s", "u", "m", "m", "a", "r", "y">>,
       <<"p", "r", "o", "f", "i", "l", "e">>,
       <<"a", "b", "o", "u", "t">>,
       <<"l", "a", "n", "g", "u", "a", "g", "e", "s">>,
       <<"v", "o", "l", "u", "n", "t", "e", "e", "r">>,
       <<"i", "n", "t", "e", "r", "e", "s", "t", "s">>,
       <<"a", "c", "t", "i", "v", "i", "t", "i", "e", "s">>,
       <<"r", "e", "f", "e", "r", "e", "n", "c", "e", "s">>,
       <<"c", "o", "n", "t", "a", "c", "t">>,
       <<"c", "o", "n", "t", "a", "c", "t", " ", "i", "n", "f", "o", "r", "m", "a", "t", "i", "o", "n">>,
       <<"p", "e", "r", "s", "o", "n", "a", "l", " ", "i", "n", "f", "o", "r", "m", "a", "t", "i", "o", "n">>,
       <<"q", "u", "a", "l", "i", "f", "i", "c", "a", "t", "i", "o", "n">> >>

\* line.rstrip(':')
RStripColon(line) ==
    LET keep == { i \in DOMAIN line : line[i] # ":" }
    IN  IF keep = {} THEN <<>>
        ELSE SubSeq(line, 1, CHOOSE i \in keep : \A j \in keep : j <= i)

\* re.match(r'^[A-Z][A-Za-z\s]+:?$', line), line being stripped
HeaderLike(line) ==
    LET body == IF line # <<>> /\ line[Len(line)] = ":"
                THEN SubSeq(line, 1, Len(line) - 1) ELSE line
    IN  /\ Len(body) >= 2
        /\ body[1] \in UpperChars
        /\ \A i \in 2..Len(body) : body[i] \in KeyChars

\* line.rstrip(':').strip().lower()
SectionName(line) == LowerStr(Strip(RStripColon(line)))

\* faulty variant: only a name equal to a standard name is standard
is_standard_exact(section_name) ==
    \E k \in DOMAIN standard_sections : standard_sections[k] = section_name

\* any(standard == section_name or standard in section_name
\*     or section_name in standard for standard in standard_sections)
is_standard(section_name) ==
    \E k \in DOMAIN standard_sections :
       \/ standard_sections[k] = section_name
       \/ Within(standard_sections[k], section_name)
       \/ Within(section_name, standard_sections[k])

\* if current_section and section_content:
\*     custom_sections[current_section] = section_content
SavedSection(st) ==
    IF st.current_section # <<>> /\ st.section_content # <<>>
    THEN Put(st.custom_sections, st.current_section, st.section_content)
    ELSE st.custom_sections

\* one pass of the loop over the lines, lines 571-594; current_section =
\* None is <<>>
CustomLine(st, raw) ==
    LET line == Strip(raw)
    IN  IF HeaderLike(line)
        THEN [current_section |->
                 IF is_standard(SectionName(line)) THEN <<>>
                 ELSE SectionName(line),
              section_content |->
                 IF st.current_section # <<>> /\ st.section_content # <<>>
                 THEN <<>> ELSE st.section_content,
              custom_sections |-> SavedSection(st)]
        ELSE IF st.current_section # <<>> /\ line # <<>>
             THEN [st EXCEPT !.section_content = Append(@, line)]
             ELSE st

RECURSIVE CustomFrom(_, _, _)
CustomFrom(st, lines, i) ==
    IF i > Len(lines) THEN st
    ELSE CustomFrom(CustomLine(st, lines[i]), lines, i + 1)

detect_custom_sections(text) ==
    SavedSection(CustomFrom([current_section |-> <<>>,
                             section_content |-> <<>>,
                             custom_sections |-> EmptyDict],
                            Split(text), 1))

----------------------------------------------------------------------------
(* parsers/resume_parser.py: extract_spacy_entities *)

\* entity_map, lines 813-826, as the pairs <<label, friendly name>>
entity_map ==
    << <<<<"O", "R", "G">>, <<"o", "r", "g", "a", "n", "i", "z", "a", "t", "i", "o", "n", "s">>>>,
       <<<<"G", "P", "E">>, <<"l", "o", "c", "a", "t", "i", "o", "n", "s">>>>,
       <<<<"L", "O", "C">>, <<"l", "o", "c", "a", "t", "i", "o", "n", "s">>>>,
       <<<<"P", "E", "R", "S", "O", "N">>, <<"p", "e", "o", "p", "l", "e">>>>,
       <<<<"D", "A", "T", "E">>, <<"d", "a", "t", "e", "s">>>>,
       <<<<"M", "O", "N", "E", "Y">>, <<"f", "i", "n", "a", "n", "c", "i", "a", "l">>>>,
       <<<<"P", "E", "R", "C", "E", "N", "T">>, <<"m", "e", "t", "r", "i", "c", "s">>>>,
       <<<<"P", "R", "O", "D", "U", "C", "T">>, <<"p", "r", "o", "d", "u", "c", "t", "s">>>>,
       <<<<"E", "V", "E", "N", "T">>, <<"e", "v", "e", "n", "t", "s">>>>,
       <<<<"W", "O", "R", "K", "_", "O", "F", "_", "A", "R", "T">>, <<"w", "o", "r", "k", "s">>>>,
       <<<<"L", "A", "W">>, <<"r", "e", "g", "u", "l", "a", "t", "i", "o", "n", "s">>>>,
       <<<<"L", "A", "N", "G", "U", "A", "G", "E">>, <<"l", "a", "n", "g", "u", "a", "g", "e", "s">>>> >>

\* entity_map.get(entity_type, entity_type.lower())
FriendlyType(entity_type) ==
    IF \E k \in DOMAIN entity_map : entity_map[k][1] = entity_type
    THEN entity_map[CHOOSE k \in DOMAIN entity_map :
                       entity_map[k][1] = entity_type][2]
    ELSE LowerStr(entity_type)

\* shortest entity text that is kept
MIN_ENTITY_LEN == 3

\* the body of `for ent in doc.ents`, lines 792-810; entities_by_type is
\* kept as the sequence of its items in insertion order
WithEntity(entities_by_type, ent) ==
    LET clean == Strip(SubWhitespace(ent.text))
        known == { k \in DOMAIN entities_by_type :
                     entities_by_type[k].type = ent.label_ }
    IN  IF Len(ent.text) < MIN_ENTITY_LEN \/ clean = <<>>
        THEN entities_by_type
        ELSE IF known = {}
        THEN Append(entities_by_type,
                    [type |-> ent.label_, entities |-> <<clean>>])
        ELSE [k \in DOMAIN entities_by_type |->
                IF k \in known /\ clean \notin Range(entities_by_type[k].entities)
                THEN [entities_by_type[k] EXCEPT
                        !.entities = Append(@, clean)]
                ELSE entities_by_type[k]]

RECURSIVE EntitiesFrom(_, _, _)
EntitiesFrom(entities_by_type, ents, i) ==
    IF i > Len(ents) THEN entities_by_type
    ELSE EntitiesFrom(WithEntity(entities_by_type, ents[i]), ents, i + 1)

\* lines 828-832: friendly_entities[friendly_type] = entities, for the items
\* of entities_by_type in their order
RECURSIVE FriendlyFrom(_, _, _)
FriendlyFrom(friendly_entities, entities_by_type, i) ==
    IF i > Len(entities_by_type) THEN friendly_entities
    ELSE FriendlyFrom(Put(friendly_entities,
                          FriendlyType(entities_by_type[i].type),
                          entities_by_type[i].entities),
                      entities_by_type, i + 1)

\* lib: what nlp(text) does, it throws (~ok) or yields doc.ents
extract_spacy_entities(SPACY_AVAILABLE, lib) ==
    IF ~SPACY_AVAILABLE \/ ~lib.ok THEN EmptyDict
    ELSE FriendlyFrom(EmptyDict, EntitiesFrom(<<>>, lib.ents, 1), 1)

----------------------------------------------------------------------------
(* parsers/resume_parser.py: extract_dynamic_fields *)

\* the lengths that gate the dynamic stage and its optional sub-steps
DYNAMIC_MIN_LEN == 200

CLUSTER_MIN_LEN == 500

ENTITY_MIN_LEN == 200

TOPIC_MIN_LEN == 500

\* the six sub-steps, named by the key each stores, in the order they run
SubSteps ==
    <<"custom_sections", "key_value_pairs", "domain_terminology",
      "content_clusters", "entities", "topics">>

\* env: the module flags ML_AVAILABLE, SPACY_AVAILABLE, GENSIM_AVAILABLE and
\* what each sub-extractor does on the text: returns a "value", returns an
\* "empty" value, or does "raise"

\* the condition under which a sub-step is tried at all
Tried(step, text, env) ==
    CASE step = "content_clusters" ->
            env.ML_AVAILABLE /\ text.len > CLUSTER_MIN_LEN
      [] step = "entities" ->
            env.SPACY_AVAILABLE /\ text.len > ENTITY_MIN_LEN
      [] step = "topics" ->
            env.GENSIM_AVAILABLE /\ text.len > TOPIC_MIN_LEN
      [] OTHER -> TRUE

\* faulty variant: an empty output is stored too
SubStepKeepsEmpty(acc, step, text, env) ==
    IF ~Tried(step, text, env) THEN acc
    ELSE [acc EXCEPT !.ran = @ \cup {step},
                     !.value = IF env.outcome[step] \in {"value", "empty"}
                               THEN @ \cup {step} ELSE @]

\* faulty variant: the sub-step has no try/except, its exception ends the
\* whole stage
SubStepUnguarded(acc, step, text, env) ==
    IF acc.raised \/ ~Tried(step, text, env) THEN acc
    ELSE IF env.outcome[step] = "raise"
         THEN [acc EXCEPT !.raised = TRUE, !.exc = "Exception",
                          !.ran = @ \cup {step}]
         ELSE [acc EXCEPT !.ran = @ \cup {step},
                          !.value = IF env.outcome[step] = "value"
                                    THEN @ \cup {step} ELSE @]

\* one sub-step: try: v = extractor(text); if v: dynamic_fields[key] = v
\* except Exception: print(...)
SubStep(acc, step, text, env) ==
    IF ~Tried(step, text, env) THEN acc
    ELSE [acc EXCEPT !.ran = @ \cup {step},
                     !.value = IF env.outcome[step] = "value"
                               THEN @ \cup {step} ELSE @]

RECURSIVE SubStepsFrom(_, _, _, _)
SubStepsFrom(acc, text, env, i) ==
    IF i > Len(SubSteps) THEN acc
    ELSE SubStepsFrom(SubStep(acc, SubSteps[i], text, env), text, env, i + 1)

\* the keys of the returned dynamic_fields (value) and the sub-steps that
\* were started (ran)
extract_dynamic_fields(text, env) ==
    IF FalsyText(text)
    THEN [raised |-> FALSE, exc |-> "", value |-> {}, ran |-> {}]
    ELSE SubStepsFrom([raised |-> FALSE, exc |-> "", value |-> {}, ran |-> {}],
                      text, env, 1)

----------------------------------------------------------------------------
(* parsers/resume_parser.py: parse_resume *)

\* the text that `text_content = ""` stands for
EmptyText ==
    [none |-> FALSE, len |-> 0, found |-> {}, throws |-> {}, chars |-> <<>>]

\* the outcome of parse_resume, with whether the dynamic stage was invoked,
\* the sub-steps it started and the dict stored under
\* dynamic_fields.key_value_pairs (empty when that key is absent)
ParseResult(r, invoked, ran, pairs) ==
    [raised |-> r.raised, exc |-> r.exc, value |-> r.value,
     dynamic_invoked |-> invoked, ran |-> ran, key_value_pairs |-> pairs]

\* faulty variant: the dynamic stage runs for every non-empty text
WithDynamicFieldsUngated(manual_data, text, env) ==
    IF text.len > 0
    THEN LET d == extract_dynamic_fields(text, env)
         IN  IF ~d.raised /\ d.value # {}
             THEN Put(manual_data, "dynamic_fields", PyDict(d.value))
             ELSE manual_data
    ELSE manual_data

\* lines 83-91: the dynamic stage, its exception swallowed
WithDynamicFields(manual_data, text, env) ==
    IF text.len > DYNAMIC_MIN_LEN
    THEN LET d == extract_dynamic_fields(text, env)
         IN  IF ~d.raised /\ d.value # {}
             THEN Put(manual_data, "dynamic_fields", PyDict(d.value))
             ELSE manual_data
    ELSE manual_data

parse_resume(exists, text_content, env) ==
    IF ~exists /\ FalsyText(text_content)
    THEN ParseResult(Raised("FileNotFoundError"), FALSE, {}, EmptyDict)
    ELSE LET text    == IF text_content.none THEN EmptyText ELSE text_content
             manual  == extract_from_text(text, env.hashseed)
             invoked == ~manual.raised /\ text.len > DYNAMIC_MIN_LEN
             ran     == IF invoked THEN extract_dynamic_fields(text, env).ran
                        ELSE {}
             data    == IF manual.raised THEN EmptyDict
                        ELSE WithDynamicFields(manual.value, text, env)
             pairs   == IF /\ "dynamic_fields" \in DOMAIN data
                           /\ "key_value_pairs"
                                \in data["dynamic_fields"].keys
                        THEN extract_key_value_pairs(text.chars)
                        ELSE EmptyDict
         IN  IF manual.raised THEN ParseResult(manual, FALSE, {}, EmptyDict)
             ELSE ParseResult(clean_parsed_data(data), invoked, ran, pairs)

----------------------------------------------------------------------------
(* The texts, environments and dicts the model draws *)

\* the subsets of S of at most n elements
RECURSIVE SubsetsUpTo(_, _)
SubsetsUpTo(S, n) ==
    IF n = 0 THEN {{}}
    ELSE LET P == SubsetsUpTo(S, n - 1)
         IN  P \cup { p \cup {x} : p \in P, x \in S }

\* the pieces that the texts with skills are made of
SkillTokens ==
    { <<"g", "o">>, <<"G", "O">>, <<"C", "+", "+">>, <<"S", "Q", "L">>,
      <<"k", "o", "t", "l", "i", "n">>, <<"r">>, <<" ">> }

\* the concatenations of at most n pieces
RECURSIVE Concatenations(_, _)
Concatenations(tokens, n) ==
    IF n = 0 THEN {<<>>}
    ELSE LET P == Concatenations(tokens, n - 1)
         IN  P \cup { p \o t : p \in P, t \in tokens }

\* lengths around the thresholds of the dynamic stage
TextLens ==
    {DYNAMIC_MIN_LEN - 1, DYNAMIC_MIN_LEN, DYNAMIC_MIN_LEN + 1,
     CLUSTER_MIN_LEN, CLUSTER_MIN_LEN + 1}

\* what a text holds: at most MaxFound patterns and throwing calls together
Marks ==
    SubsetsUpTo({ <<"found", f>> : f \in Features }
                  \cup { <<"throws", t>> : t \in ThrowSites }, MaxFound)

TextOf(n, marks) ==
    [none   |-> FALSE,
     len    |-> n,
     found  |-> { f \in Features : <<"found", f>> \in marks },
     throws |-> { t \in ThrowSites : <<"throws", t>> \in marks },
     chars  |-> <<>>]

NoneText ==
    [none |-> TRUE, len |-> 0, found |-> {}, throws |-> {}, chars |-> <<>>]

\* text_content: None, "", or a text with some marks, on either side of the
\* threshold of the dynamic stage
MarkedTexts ==
    { TextOf(n, m) : n \in {DYNAMIC_MIN_LEN - 1, DYNAMIC_MIN_LEN + 1},
                     m \in Marks }

PlainTexts == { TextOf(n, {}) : n \in TextLens }

\* texts of 199 characters in which terms of the skills dictionary occur
SkillTexts ==
    { [TextOf(DYNAMIC_MIN_LEN - 1, {}) EXCEPT !.chars = c] :
        c \in Concatenations(SkillTokens, MaxTokens) \ {<<>>} }

\* the lines that the texts with key-value pairs are made of
KvLines ==
    { <<"G", "P", "A", ":", " ", "3", ".", "8">>, <<"E", "d">>, <<"7", "7">>,
      <<"A", "g", "e", " ", "-", " ", "5">> }

\* the lines of at most n lines, joined by newlines
RECURSIVE LinesUpTo(_, _)
LinesUpTo(lines, n) ==
    IF n = 1 THEN lines
    ELSE LET P == LinesUpTo(lines, n - 1)
         IN  P \cup { p \o <<"\n">> \o l : p \in P, l \in lines }

\* the pieces that the texts handed to clean_text are made of
CleanTokens ==
    { <<"S", "k", "i", "l", "l", "s">>, <<"e", "d", "u", "c", "a", "t", "i", "o", "n">>, <<"x">>, <<"\n">> }

\* texts in which two keywords can stand between two other characters
CleanTexts == Concatenations(CleanTokens, MaxTokens + 1)

\* the lines that the texts with sections are made of
SectionLines ==
    { <<"E", "x", "p", "e", "r", "i", "e", "n", "c", "e">>,
      <<"E", "m", "p", "l", "o", "y", "m", "e", "n", "t">>,
      <<"P", "r", "o", "f", "i", "l", "e">>,
      <<"S", "u", "m", "m", "a", "r", "y">>,
      <<"A", "c", "m", "e">>,
      <<"E", "x", "p", "e", "r", "i", "e", "n", "c", "e", "d">> }

\* texts of 199 characters whose lines with letters are those of chars
SectionTexts ==
    { [TextOf(DYNAMIC_MIN_LEN - 1, {}) EXCEPT !.chars = c] :
        c \in LinesUpTo(SectionLines, MaxTokens) }

\* the lines that the texts handed to detect_custom_sections are made of
CustomLines ==
    { <<"H", "o", "b", "b", "i", "e", "s", ":">>,
      <<"S", "k", "i", "l", "l", "s">>,
      <<"S", "o", "f", "t", " ", "S", "k", "i", "l", "l", "s">>,
      <<"c", "h", "e", "s", "s">> }

\* texts in which lines can follow a custom and a standard header
CustomTexts == LinesUpTo(CustomLines, MaxTokens + 1)

\* the entities that nlp(text) recognizes: a text and a label each
Entities ==
    [text   : { <<"P", "a", "r", "i", "s">>, <<"A", "l", "p", "s">>, <<"U", "N">> },
     label_ : { <<"G", "P", "E">>, <<"L", "O", "C">>, <<"N", "O", "R", "P">> }]

\* the sequences of at most n elements of S
RECURSIVE SeqsUpTo(_, _)
SeqsUpTo(S, n) ==
    IF n = 0 THEN {<<>>}
    ELSE LET P == SeqsUpTo(S, n - 1)
         IN  P \cup { Append(p, x) : p \in P, x \in S }

\* nlp(text) throws, or yields at most MaxFound entities
EntityOutcomes ==
    { [ok |-> FALSE, ents |-> <<>>] }
      \cup { [ok |-> TRUE, ents |-> e] : e \in SeqsUpTo(Entities, MaxFound) }

\* texts of 201 characters whose lines with letters are those of chars
KvTexts ==
    { [TextOf(DYNAMIC_MIN_LEN + 1, {}) EXCEPT !.chars = c] :
        c \in LinesUpTo(KvLines, MaxTokens) }

\* every optional library present, every sub-extractor returning a value,
\* sets iterated in the order of the dictionary
DefaultEnv ==
    [ML_AVAILABLE |-> TRUE, SPACY_AVAILABLE |-> TRUE, GENSIM_AVAILABLE |-> TRUE,
     outcome |-> [s \in Range(SubSteps) |-> "value"],
     hashseed |-> DictionaryOrder]

\* the flag that guards a sub-step (TRUE for the three that have none)
Available(env, step) ==
    CASE step = "content_clusters" -> env.ML_AVAILABLE
      [] step = "entities"         -> env.SPACY_AVAILABLE
      [] step = "topics"           -> env.GENSIM_AVAILABLE
      [] OTHER                     -> TRUE

\* every combination of flags and outcomes (a sub-extractor whose library is
\* absent has no outcome to draw)
Envs ==
    { e \in [ML_AVAILABLE : BOOLEAN, SPACY_AVAILABLE : BOOLEAN,
             GENSIM_AVAILABLE : BOOLEAN,
             outcome : [Range(SubSteps) -> {"value", "empty", "raise"}],
             hashseed : {DictionaryOrder}] :
        \A s \in Range(SubSteps) : ~Available(e, s) => e.outcome[s] = "value" }

\* the environment in which extract_key_value_pairs returns what the text
\* holds
KvEnv(text) ==
    [DefaultEnv EXCEPT
       !.outcome["key_value_pairs"] =
          IF extract_key_value_pairs(text.chars) = EmptyDict
          THEN "empty" ELSE "value"]

\* the arguments of parse_resume: any text with every library in order, a
\* plain text with any environment, or a text with key-value lines
ParseInputs ==
    { <<t, DefaultEnv>> : t \in {NoneText, EmptyText} \cup MarkedTexts }
      \cup { <<t, e>> : t \in PlainTexts, e \in Envs }
      \cup { <<t, KvEnv(t)>> : t \in KvTexts }

\* the keys and values of the dicts handed to clean_parsed_data
DictKeys ==
    {"name", "skills", "experience", "education", "summary", "linkedin",
     "websites", "extra"}

DictValues ==
    { PyStr(<<>>), PyStr(<<"v">>), PyStr(<<"P", "y">>), PyList(<<>>),
      PyList(<< <<"v">> >>),
      PyList(<< <<"R">>, <<"r">> >>), PyInt(<<"5">>), PyNone }

RECURSIVE DictsUpTo(_)
DictsUpTo(n) ==
    IF n = 0 THEN {EmptyDict}
    ELSE LET P == DictsUpTo(n - 1)
         IN  P \cup { Put(d, k, v) :
                        d \in P, k \in DictKeys, v \in DictValues }

Dicts == DictsUpTo(MaxFound)

----------------------------------------------------------------------------
(* The library as a state machine: a call is made, it returns *)

Idle == [op |-> "idle", args |-> <<>>, ret |-> <<>>]

\* extract_text_from_pdf(pdf_path)
ExtractTextFromPdf ==
    /\ call = Idle
    /\ \E exists \in BOOLEAN, OCR_AVAILABLE \in BOOLEAN :
         \E pypdf2 \in (IF exists THEN PagedOutcomes ELSE {NotCalled}),
            pdfminer \in (IF exists THEN TextOutcomes
                          ELSE {[ok |-> FALSE, text |-> <<>>]}) :
           \E ocr \in (IF OcrCalled(exists, OCR_AVAILABLE, pypdf2, pdfminer)
                       THEN OcrOutcomes ELSE {NotCalled}) :
              LET doc == [pypdf2 |-> pypdf2, pdfminer |-> pdfminer, ocr |-> ocr]
              IN  call' = [op   |-> "extract_text_from_pdf",
                           args |-> [exists |-> exists,
                                     OCR_AVAILABLE |-> OCR_AVAILABLE,
                                     doc |-> doc],
                           ret  |-> extract_text_from_pdf(exists,
                                                          OCR_AVAILABLE, doc)]
    /\ UNCHANGED <<fs, reqs, db, spaces>>

\* parse_resume(pdf_path, text_content)
ParseResume ==
    /\ call = Idle
    /\ \E exists \in BOOLEAN, in \in ParseInputs :
         call' = [op   |-> "parse_resume",
                  args |-> [exists |-> exists, text |-> in[1], env |-> in[2]],
                  ret  |-> parse_resume(exists, in[1], in[2])]
    /\ UNCHANGED <<fs, reqs, db, spaces>>

\* extract_from_text(text)
ExtractFromText ==
    /\ call = Idle
    /\ \E in \in { <<text, DictionaryOrder>> :
                     text \in {EmptyText} \cup SectionTexts
                       \cup { TextOf(DYNAMIC_MIN_LEN, m) : m \in Marks } }
                 \cup (SkillTexts \X HashSeeds) :
         call' = [op   |-> "extract_from_text",
                  args |-> [text |-> in[1], hashseed |-> in[2],
                            earlier |-> <<>>],
                  ret  |-> extract_from_text(in[1], in[2])]
    /\ UNCHANGED <<fs, reqs, db, spaces>>

\* extract_from_text(text) once more on the same text, one whose characters
\* are given, in an interpreter started with any hash seed; earlier holds
\* what the run before returned
ExtractFromTextAgain ==
    /\ call.op = "extract_from_text"
    /\ call.args.earlier = <<>>
    /\ call.args.text.chars # <<>>
    /\ \E hashseed \in HashSeeds :
         call' = [op   |-> "extract_from_text",
                  args |-> [text |-> call.args.text, hashseed |-> hashseed,
                            earlier |-> <<call.ret>>],
                  ret  |-> extract_from_text(call.args.text, hashseed)]
    /\ UNCHANGED <<fs, reqs, db, spaces>>

\* extract_dynamic_fields(text)
ExtractDynamicFields ==
    /\ call = Idle
    /\ \E text \in {EmptyText} \cup PlainTexts, env \in Envs :
         call' = [op   |-> "extract_dynamic_fields",
                  args |-> [text |-> text, env |-> env],
                  ret  |-> extract_dynamic_fields(text, env)]
    /\ UNCHANGED <<fs, reqs, db, spaces>>

\* clean_text(text)
CleanText ==
    /\ call = Idle
    /\ \E text \in CleanTexts :
         call' = [op   |-> "clean_text",
                  args |-> [text |-> text],
                  ret  |-> Returned(clean_text(text))]
    /\ UNCHANGED <<fs, reqs, db, spaces>>

\* detect_custom_sections(text)
DetectCustomSections ==
    /\ call = Idle
    /\ \E text \in CustomTexts :
         call' = [op   |-> "detect_custom_sections",
                  args |-> [text |-> text],
                  ret  |-> Returned(detect_custom_sections(text))]
    /\ UNCHANGED <<fs, reqs, db, spaces>>

\* extract_spacy_entities(text)
ExtractSpacyEntities ==
    /\ call = Idle
    /\ \E SPACY_AVAILABLE \in BOOLEAN, lib \in EntityOutcomes :
         call' = [op   |-> "extract_spacy_entities",
                  args |-> [SPACY_AVAILABLE |-> SPACY_AVAILABLE, lib |-> lib],
                  ret  |-> Returned(extract_spacy_entities(SPACY_AVAILABLE,
                                                           lib))]
    /\ UNCHANGED <<fs, reqs, db, spaces>>

\* clean_parsed_data(data)
CleanParsedData ==
    /\ call = Idle
    /\ \E data \in Dicts :
         call' = [op   |-> "clean_parsed_data",
                  args |-> [data |-> data],
                  ret  |-> clean_parsed_data(data)]
    /\ UNCHANGED <<fs, reqs, db, spaces>>


\* the caller takes the result
Return ==
    /\ call # Idle
    /\ call' = Idle
    /\ UNCHANGED <<fs, reqs, db, spaces>>

----------------------------------------------------------------------------
(* controllers/parser_controller.py: extract_resume *)

\* the requests served at the same time, each by its own worker
Reqs == {"r1", "r2"}

\* the two handlers that take an upload
Handlers == {"extract_resume", "save_resume"}

\* file.filename of an upload
FileNames == {"a.pdf", "b.pdf"}

\* uploads: a file no backend can read, a one-page text PDF, a scanned page
\* (empty text layer, text only through OCR)
Unreadable ==
    [pypdf2   |-> [ok |-> FALSE, pages |-> <<>>],
     pdfminer |-> [ok |-> FALSE, text |-> <<>>],
     ocr      |-> [ok |-> FALSE, pages |-> <<>>]]

TextPdf ==
    [pypdf2   |-> [ok |-> TRUE, pages |-> << <<"a", " ">> >>],
     pdfminer |-> [ok |-> TRUE, text |-> <<"a", ".">>],
     ocr      |-> [ok |-> TRUE, pages |-> << <<"a">> >>]]

ScannedPdf ==
    [pypdf2   |-> [ok |-> TRUE, pages |-> << <<>> >>],
     pdfminer |-> [ok |-> TRUE, text |-> <<>>],
     ocr      |-> [ok |-> TRUE, pages |-> << <<".">> >>]]

Uploads == {Unreadable, TextPdf, ScannedPdf}

\* user_id of a save_resume request
Users == {"u1", "u2"}

\* saved_id when save_resume_document returns None
NoId == "None"

\* a request that has not arrived; before and quiet record what the
\* collection held for the user when the request arrived and whether every
\* other request had returned by then
NoRequest ==
    [pc |-> "idle", handler |-> "", filename |-> "", OCR_AVAILABLE |-> FALSE,
     upload |-> Unreadable, read |-> Unreadable, text_content |-> <<>>,
     success |-> FALSE, content |-> EmptyDict, error |-> "",
     user_id |-> "", existing_resumes |-> {}, saved_id |-> "",
     before |-> {}, quiet |-> FALSE]

\* the documents of a user in the collection: collection.find({"user_id": ...})
ResumesOf(docs, user_id) == { d \in docs : d.user_id = user_id }

\* generate_spaces_key(user_id, resume_id, filename), which is also what
\* '/'.join(url.split('/')[3:]) gives back from the document's url
SpacesKey(d) == <<d.user_id, d.resume_id>>

\* the text of the controller's documents as the field rules see it: no rule's
\* pattern occurs in a text over PageChars
TextFeatures(text_content) ==
    [none |-> FALSE, len |-> Len(text_content), found |-> {}, throws |-> {},
     chars |-> text_content]

\* temp_file_path.unlink(missing_ok=True)
Unlink(files, name) == [n \in DOMAIN files \ {name} |-> files[n]]

\* except Exception as e: unlink the temp file, return False, str(e)
Failed(req, e) ==
    [req EXCEPT !.pc = "done", !.success = FALSE, !.error = e]

\* lines 40-42 and 89-91: the request arrives and file.save(temp_file_path)
\* stores the upload under UPLOAD_FOLDER / file.filename
SaveUpload(r) ==
    /\ reqs[r].pc = "idle"
    /\ \E name \in FileNames, upload \in Uploads, avail \in BOOLEAN,
          handler \in Handlers :
         \E user_id \in (IF handler = "save_resume" THEN Users ELSE {""}) :
            /\ fs' = Put(fs, name, upload)
            /\ reqs' = [reqs EXCEPT ![r] =
                          [NoRequest EXCEPT
                             !.pc = "saved",
                             !.handler = handler,
                             !.filename = name,
                             !.OCR_AVAILABLE = avail,
                             !.upload = upload,
                             !.user_id = user_id,
                             !.before = ResumesOf(db, user_id),
                             !.quiet = \A o \in Reqs \ {r} :
                                          reqs[o].pc = "done"]]
    /\ UNCHANGED <<call, db, spaces>>

\* lines 45 and 94: text_content = extract_text_from_pdf(temp_file_path), on
\* whatever the path holds now
ExtractText(r) ==
    /\ reqs[r].pc = "saved"
    /\ LET name   == reqs[r].filename
           exists == name \in DOMAIN fs
           doc    == IF exists THEN fs[name] ELSE Unreadable
           res    == extract_text_from_pdf(exists, reqs[r].OCR_AVAILABLE, doc)
       IN  IF res.raised
           THEN /\ fs' = Unlink(fs, name)
                /\ reqs' = [reqs EXCEPT ![r] = Failed(@, res.exc)]
           ELSE /\ fs' = fs
                /\ reqs' = [reqs EXCEPT ![r].pc = "extracted",
                                        ![r].read = doc,
                                        ![r].text_content = res.value]
    /\ UNCHANGED <<call, db, spaces>>

\* lines 48-68 and 97: parsed_data = parse_resume(temp_file_path,
\* text_content); extract_resume builds the result dict and returns True,
\* result, save_resume goes on to store the resume
ParseAndRespond(r) ==
    /\ reqs[r].pc = "extracted"
    /\ LET name == reqs[r].filename
           res  == parse_resume(name \in DOMAIN fs,
                                TextFeatures(reqs[r].text_content), DefaultEnv)
       IN  IF res.raised
           THEN /\ fs' = Unlink(fs, name)
                /\ reqs' = [reqs EXCEPT ![r] = Failed(@, res.exc)]
           ELSE /\ fs' = fs
                /\ reqs' = [reqs EXCEPT
                              ![r].pc = IF reqs[r].handler = "save_resume"
                                        THEN "parsed" ELSE "done",
                              ![r].success = reqs[r].handler = "extract_resume",
                              ![r].content = res.value]
    /\ UNCHANGED <<call, db, spaces>>

\* lines 102-103: existing_resumes = get_user_resumes(user_id), which is []
\* when the database call throws; an empty list skips the deletions
GetUserResumes(r) ==
    /\ reqs[r].pc = "parsed"
    /\ \E ok \in BOOLEAN :
         LET existing_resumes == IF ok THEN ResumesOf(db, reqs[r].user_id)
                                 ELSE {}
         IN  reqs' = [reqs EXCEPT
                        ![r].pc = IF existing_resumes = {} THEN "cleared"
                                  ELSE "listed",
                        ![r].existing_resumes = existing_resumes]
    /\ UNCHANGED <<call, fs, db, spaces>>

\* lines 105-111: delete_file_from_spaces(object_key) for every existing
\* resume; a failure is reported in the return value, which is dropped
DeleteFromSpaces(r) ==
    /\ reqs[r].pc = "listed"
    /\ \E ok \in BOOLEAN :
         spaces' = IF ok
                   THEN spaces \ { SpacesKey(d) :
                                     d \in reqs[r].existing_resumes }
                   ELSE spaces
    /\ reqs' = [reqs EXCEPT ![r].pc = "purged"]
    /\ UNCHANGED <<call, fs, db>>

\* line 114: delete_user_resumes(user_id) deletes every document of the
\* user, or returns 0 when the database call throws
DeleteUserResumes(r) ==
    /\ reqs[r].pc = "purged"
    /\ \E ok \in BOOLEAN :
         db' = IF ok THEN db \ ResumesOf(db, reqs[r].user_id) ELSE db
    /\ reqs' = [reqs EXCEPT ![r].pc = "cleared"]
    /\ UNCHANGED <<call, fs, spaces>>

\* lines 117-121: upload_file_to_spaces(temp_file_path, spaces_key, ...)
\* fails when the file is gone or the client throws; save_resume then
\* raises, and the except branch unlinks the temp file and returns False
UploadFile(r) ==
    /\ reqs[r].pc = "cleared"
    /\ \E ok \in BOOLEAN :
         IF ok /\ reqs[r].filename \in DOMAIN fs
         THEN /\ spaces' = spaces \cup {<<reqs[r].user_id, r>>}
              /\ fs' = fs
              /\ reqs' = [reqs EXCEPT ![r].pc = "uploaded"]
         ELSE /\ spaces' = spaces
              /\ fs' = Unlink(fs, reqs[r].filename)
              /\ reqs' = [reqs EXCEPT ![r] = Failed(@, "Exception")]
    /\ UNCHANGED <<call, db>>

\* lines 127-151: saved_id = save_resume_document(document), which is None
\* when the insert throws; return True, result either way
SaveDocument(r) ==
    /\ reqs[r].pc = "uploaded"
    /\ \E ok \in BOOLEAN :
         /\ db' = IF ok
                  THEN db \cup {[resume_id |-> r,
                                 user_id |-> reqs[r].user_id]}
                  ELSE db
         /\ reqs' = [reqs EXCEPT ![r].pc = "done",
                                 ![r].success = TRUE,
                                 ![r].saved_id = IF ok THEN r ELSE NoId]
    /\ UNCHANGED <<call, fs, spaces>>

NextCtl ==
    \E r \in Reqs :
       \/ SaveUpload(r)
       \/ ExtractText(r)
       \/ ParseAndRespond(r)
       \/ GetUserResumes(r)
       \/ DeleteFromSpaces(r)
       \/ DeleteUserResumes(r)
       \/ UploadFile(r)
       \/ SaveDocument(r)

Init ==
    /\ call = Idle
    /\ fs = EmptyDict
    /\ reqs = [r \in Reqs |-> NoRequest]
    /\ db = {}
    /\ spaces = {}

Next ==
    \/ ExtractTextFromPdf
    \/ ParseResume
    \/ ExtractFromText
    \/ ExtractFromTextAgain
    \/ ExtractDynamicFields
    \/ CleanParsedData
    \/ CleanText
    \/ DetectCustomSections
    \/ ExtractSpacyEntities
    \/ Return

Spec == Init /\ [][Next]_vars

SpecCtl == Init /\ [][NextCtl]_vars

----------------------------------------------------------------------------
(* Properties of the library calls (Spec) *)

ReturnedFrom(op) == call.op = op /\ ~call.ret.raised

\* the keys that clean_parsed_data guarantees
CanonicalKeys ==
    {"name", "email", "phone", "skills", "experience", "education", "summary"}

\* the empty value of a field's type
EmptyOf(field) == IF field \in ListFields THEN PyList(<<>>) ELSE PyStr(<<>>)

\* C1: whatever dict clean_parsed_data is given, and whatever parse_resume is
\* called on, the dict that comes back holds the keys name, email, phone,
\* skills, experience, education and summary.
C1_CanonicalKeysPresent ==
    (ReturnedFrom("clean_parsed_data") \/ ReturnedFrom("parse_resume"))
        => CanonicalKeys \subseteq DOMAIN call.ret.value

\* C1 witness: clean_parsed_data returned for a dict that lacks summary and
\* skills
C1_Witness ==
    /\ ReturnedFrom("clean_parsed_data")
    /\ "summary" \notin DOMAIN call.args.data
    /\ "skills" \notin DOMAIN call.args.data
    /\ "extra" \in DOMAIN call.args.data

\* C2: every result of parse_resume holds every field of ParsedResume, a field
\* that no rule extracted being [] (list fields) or "" (scalar fields).
C2_EveryFieldPresent ==
    ReturnedFrom("parse_resume") =>
        \A f \in ResumeFields :
            /\ f \in DOMAIN call.ret.value
            /\ FalsyText(call.args.text) => call.ret.value[f] = EmptyOf(f)

\* C3: parse_resume called with the empty string raises nothing and returns
\* only empty fields, whether the path exists or not.
C3_EmptyTextNeverRaises ==
    (call.op = "parse_resume" /\ call.args.text = EmptyText) =>
        /\ ~call.ret.raised
        /\ \A f \in DOMAIN call.ret.value \cap ResumeFields :
              call.ret.value[f] = EmptyOf(f)

\* C4: extract_text_from_pdf raises exactly when the path does not exist; a
\* backend whose library call throws contributes the empty string as its
\* candidate and the call still returns.
C4_OnlyMissingFileRaises ==
    call.op = "extract_text_from_pdf" =>
        /\ call.ret.raised <=> ~call.args.exists
        /\ call.args.exists =>
             /\ Len(call.ret.candidates) >= 2
             /\ ~call.args.doc.pypdf2.ok =>
                    call.ret.candidates[1] = Candidate(<<>>, "PyPDF2")
             /\ ~call.args.doc.pdfminer.ok =>
                    call.ret.candidates[2] = Candidate(<<>>, "pdfminer.six")
             /\ (Len(call.ret.candidates) = 3 /\ ~call.args.doc.ocr.ok) =>
                    call.ret.candidates[3] = Candidate(<<>>, "OCR")

\* C4 witness: the file exists, every backend that ran threw, OCR among them,
\* and the call returned
C4_Witness ==
    /\ ReturnedFrom("extract_text_from_pdf")
    /\ ~call.args.doc.pypdf2.ok
    /\ ~call.args.doc.pdfminer.ok
    /\ Len(call.ret.candidates) = 3
    /\ call.ret.value = <<>>

\* C6: extract_from_text never raises, and a rule that throws costs only its
\* own field: every other rule whose pattern occurs still stores its field.
SitesOf(feature) ==
    CASE feature = "name"                -> {"name_regex"}
      [] feature = "name_ner"            -> {"name_regex", "name_ner"}
      [] feature = "years_of_experience" -> {"years_regex", "years_int"}
      [] feature \in SectionFields       -> {"sections"}
      [] OTHER                           -> {feature}

FieldOf(feature) == IF feature = "name_ner" THEN "name" ELSE feature

C6_RuleFailuresIsolated ==
    call.op = "extract_from_text" =>
        /\ ~call.ret.raised
        /\ \A f \in call.args.text.found :
              SitesOf(f) \cap call.args.text.throws = {}
                  => FieldOf(f) \in DOMAIN call.ret.value

\* the sub-steps whose own flag and length gate let them start
OwnGate(step, text, env) ==
    /\ Available(env, step)
    /\ step = "content_clusters" => text.len > CLUSTER_MIN_LEN
    /\ step = "topics" => text.len > TOPIC_MIN_LEN
    /\ step = "entities" => text.len > ENTITY_MIN_LEN

Succeeded(text, env) ==
    { s \in Range(SubSteps) : OwnGate(s, text, env) /\ env.outcome[s] = "value" }

\* C7: in extract_dynamic_fields a sub-step that fails or lacks its library
\* stops no other sub-step: the call never raises, every sub-step whose own
\* gate is open starts, and the result is the union of what the succeeding
\* ones returned; parse_resume does not fail on account of the dynamic stage
\* and stores exactly that union.
C7_SubStepsIndependent ==
    /\ (call.op = "extract_dynamic_fields" /\ ~FalsyText(call.args.text)) =>
          /\ ~call.ret.raised
          /\ call.ret.ran =
               { s \in Range(SubSteps) : OwnGate(s, call.args.text, call.args.env) }
          /\ call.ret.value = Succeeded(call.args.text, call.args.env)
    /\ (/\ call.op = "parse_resume"
        /\ call.args.text.len > DYNAMIC_MIN_LEN
        /\ call.args.text.throws = {}) =>
          /\ ~call.ret.raised
          /\ call.ret.dynamic_invoked
          /\ LET got == Succeeded(call.args.text, call.args.env)
             IN  IF got = {} THEN "dynamic_fields" \notin DOMAIN call.ret.value
                 ELSE /\ "dynamic_fields" \in DOMAIN call.ret.value
                      /\ call.ret.value["dynamic_fields"] = PyDict(got)

\* C7 witness: the first sub-step raised, a library is missing, and a later
\* sub-step still contributed
C7_Witness ==
    /\ ReturnedFrom("extract_dynamic_fields")
    /\ call.args.env.outcome["custom_sections"] = "raise"
    /\ call.args.env.outcome["entities"] = "raise"
    /\ ~call.args.env.ML_AVAILABLE
    /\ call.ret.value = {"key_value_pairs", "topics"}

\* C8: for a text of fewer than 200 characters parse_resume does not invoke
\* extract_dynamic_fields and its result has no dynamic_fields key, hence no
\* content_clusters, topics or entities.
C8_NoDynamicFieldsBelow200 ==
    (call.op = "parse_resume" /\ call.args.text.len < DYNAMIC_MIN_LEN) =>
        /\ ~call.ret.dynamic_invoked
        /\ call.ret.ran = {}
        /\ ~call.ret.raised =>
             DOMAIN call.ret.value
               \cap {"dynamic_fields", "content_clusters", "topics", "entities"}
                 = {}

\* C8 witness: parse_resume returned for a text of 199 characters
C8_Witness ==
    /\ ReturnedFrom("parse_resume")
    /\ call.args.text.len = DYNAMIC_MIN_LEN - 1
    /\ call.args.text.found # {}

\* the first candidate, in the order PyPDF2, pdfminer, OCR, among the longest
FirstLongest(candidates) ==
    CHOOSE i \in DOMAIN candidates :
        /\ \A j \in DOMAIN candidates :
              candidates[j].length <= candidates[i].length
        /\ \A j \in 1..(i - 1) : candidates[j].length < candidates[i].length

\* C9: the winner of extract_text_from_pdf is a candidate of greatest length,
\* the first of them in the order PyPDF2, pdfminer, OCR; the text returned is
\* the cleaned winner.
C9_LongestFirstListedWins ==
    ReturnedFrom("extract_text_from_pdf") =>
        LET w == call.ret.candidates[FirstLongest(call.ret.candidates)]
        IN  /\ call.ret.texts[1] = w
            /\ call.ret.value = clean_text(w.text)
            /\ w.length = Len(w.text)

\* C9 witness: pdfminer and OCR tie for the greatest length with different
\* texts, PyPDF2 being shorter
C9_Witness ==
    /\ ReturnedFrom("extract_text_from_pdf")
    /\ Len(call.ret.candidates) = 3
    /\ call.ret.candidates[2].length = call.ret.candidates[3].length
    /\ call.ret.candidates[1].length < call.ret.candidates[2].length
    /\ call.ret.candidates[2].text # call.ret.candidates[3].text
    /\ call.ret.value # clean_text(call.ret.candidates[3].text)

\* the case of C10: the file is there, both text-layer candidates are shorter
\* than 100 characters, OCR is not available
LowContentNoOcr ==
    /\ call.op = "extract_text_from_pdf"
    /\ call.args.exists
    /\ ~call.args.OCR_AVAILABLE
    /\ Len(extract_with_pypdf2(call.args.doc.pypdf2).value) < MIN_CONTENT
    /\ Len(extract_with_pdfminer(call.args.doc.pdfminer).value) < MIN_CONTENT

\* C10 as claimed: in that case the call does not raise, prints the warning
\* and returns a text no shorter than the longer text-layer candidate.
C10_ReturnsNoShorter ==
    LowContentNoOcr =>
        /\ ~call.ret.raised
        /\ call.ret.log = <<"warning_no_ocr">>
        /\ Len(call.ret.value) >=
             Max(Len(extract_with_pypdf2(call.args.doc.pypdf2).value),
                 Len(extract_with_pdfminer(call.args.doc.pdfminer).value))

\* C10 amended: in that case the call does not raise, prints the warning and
\* returns clean_text of the longer text-layer candidate (PyPDF2's when they
\* tie): the candidate chosen is no shorter than either one, the cleaned text
\* returned may be.
C10_ReturnsCleanedBest ==
    LowContentNoOcr =>
        LET p == extract_with_pypdf2(call.args.doc.pypdf2).value
            m == extract_with_pdfminer(call.args.doc.pdfminer).value
            best == IF Len(p) >= Len(m) THEN p ELSE m
        IN  /\ ~call.ret.raised
            /\ call.ret.log = <<"warning_no_ocr">>
            /\ Len(call.ret.candidates) = 2
            /\ call.ret.value = clean_text(best)

\* C10 witness: the case happens and the text returned is shorter than the
\* longer text-layer candidate
C10_Witness ==
    /\ LowContentNoOcr
    /\ ~call.ret.raised
    /\ call.ret.log = <<"warning_no_ocr">>
    /\ Len(call.ret.value) <
         Max(Len(extract_with_pypdf2(call.args.doc.pypdf2).value),
             Len(extract_with_pdfminer(call.args.doc.pdfminer).value))

\* C16: OCR is run and its output made the third candidate exactly when the
\* file is there, both text-layer candidates are shorter than 100 characters
\* and OCR is available; if a text-layer candidate has 100 characters or more
\* the winner is a text-layer candidate.
C16_OcrOnlyOnLittleContent ==
    ReturnedFrom("extract_text_from_pdf") =>
        LET p == call.ret.candidates[1].length
            m == call.ret.candidates[2].length
            ocr_run == /\ Len(call.ret.candidates) = 3
                       /\ call.ret.candidates[3].method = "OCR"
                       /\ call.ret.log = <<"trying_ocr">>
        IN  /\ call.ret.candidates[1].method = "PyPDF2"
            /\ call.ret.candidates[2].method = "pdfminer.six"
            /\ ocr_run <=>
                 (p < MIN_CONTENT /\ m < MIN_CONTENT /\ call.args.OCR_AVAILABLE)
            /\ ~ocr_run => Len(call.ret.candidates) = 2
            /\ (p >= MIN_CONTENT \/ m >= MIN_CONTENT) =>
                 call.ret.texts[1].method \in {"PyPDF2", "pdfminer.six"}

\* C16 witness: OCR is available, one text-layer candidate has 100 characters
\* and the other fewer, and the call returned with two candidates
C16_Witness ==
    /\ ReturnedFrom("extract_text_from_pdf")
    /\ call.args.OCR_AVAILABLE
    /\ call.ret.candidates[1].length = MIN_CONTENT
    /\ call.ret.candidates[2].length < MIN_CONTENT
    /\ Len(call.ret.candidates) = 2

\* C17: in a result of parse_resume a sub-key of dynamic_fields is there only
\* if its sub-extractor was started, did not raise and returned something
\* non-empty, and dynamic_fields is there only with at least one sub-key.
C17_DynamicKeysOnlyFromSuccess ==
    (ReturnedFrom("parse_resume")
       /\ "dynamic_fields" \in DOMAIN call.ret.value) =>
        LET d == call.ret.value["dynamic_fields"]
        IN  /\ d.kind = "dict"
            /\ d.keys # {}
            /\ d.keys \subseteq call.ret.ran
            /\ \A k \in d.keys :
                  /\ k \in Range(SubSteps)
                  /\ call.args.env.outcome[k] = "value"
                  /\ Available(call.args.env, k)

\* C17 witness: parse_resume returned dynamic_fields with one sub-key, other
\* sub-extractors having raised or returned nothing
C17_Witness ==
    /\ ReturnedFrom("parse_resume")
    /\ "dynamic_fields" \in DOMAIN call.ret.value
    /\ call.ret.value["dynamic_fields"].keys = {"domain_terminology"}
    /\ call.args.env.outcome["custom_sections"] = "empty"
    /\ call.args.env.outcome["key_value_pairs"] = "raise"

\* no two entries of a list are equal ignoring case
NoCaseDuplicates(entries) ==
    \A i, j \in DOMAIN entries :
        i < j => LowerStr(entries[i]) # LowerStr(entries[j])

\* the entries that are the first of their spelling ignoring case, in order
FirstOccurrences(entries) ==
    SelectSeq([i \in DOMAIN entries |->
                  IF \E j \in 1..(i - 1) :
                       LowerStr(entries[j]) = LowerStr(entries[i])
                  THEN <<>> ELSE entries[i]],
              LAMBDA e : e # <<>>)

\* C19: clean_parsed_data removes from every list field of its input the
\* entries that repeat an earlier one ignoring case, keeping the first
\* occurrences in their casing and order.
C19_EveryListFieldDeduplicated ==
    ReturnedFrom("clean_parsed_data") =>
        \A f \in ListFields \cap DOMAIN call.args.data :
            call.args.data[f].kind = "list" =>
                /\ call.ret.value[f].kind = "list"
                /\ NoCaseDuplicates(call.ret.value[f].items)
                /\ call.ret.value[f].items =
                     FirstOccurrences(call.args.data[f].items)

\* C20: clean_parsed_data makes a list of every list field: a non-empty str
\* becomes the list of that one str, an absent or falsy value the empty list.
C20_EveryListFieldCoerced ==
    ReturnedFrom("clean_parsed_data") =>
        \A f \in ListFields :
            IF f \in DOMAIN call.args.data /\ Truthy(call.args.data[f])
            THEN call.args.data[f].kind = "str" =>
                    /\ f \in DOMAIN call.ret.value
                    /\ call.ret.value[f] =
                         PyList(<<call.args.data[f].items[1]>>)
            ELSE /\ f \in DOMAIN call.ret.value
                 /\ call.ret.value[f] = PyList(<<>>)

\* the skills list that the Field Extractor (extract_from_text, then
\* clean_parsed_data) returns for the call in progress
OutputSkills == clean_parsed_data(call.ret.value).value["skills"].items

FieldsExtracted ==
    /\ ReturnedFrom("extract_from_text")
    /\ ~FalsyText(call.args.text)

\* C11: a second run of the Field Extractor on the same text returns what the
\* first run returned, the order of every list included.
C11_SameTextSameResult ==
    (call.op = "extract_from_text" /\ call.args.earlier # <<>>) =>
        /\ call.ret = call.args.earlier[1]
        /\ ~call.ret.raised =>
             clean_parsed_data(call.ret.value)
               = clean_parsed_data(call.args.earlier[1].value)

\* the term occurs in t as a whole word, ignoring case: no word character
\* before it and none after it
OccursAsWord(term, t) ==
    \E i \in DOMAIN t :
        /\ i + Len(term) - 1 <= Len(t)
        /\ \A k \in DOMAIN term : Lower(t[i + k - 1]) = Lower(term[k])
        /\ ~(i - 1 \in DOMAIN t /\ IsWord(t[i - 1]))
        /\ ~(i + Len(term) \in DOMAIN t /\ IsWord(t[i + Len(term)]))

\* C12: the output skills are dictionary terms in the dictionary's casing, a
\* term is among them exactly if it occurs in the text as a whole word
\* ignoring case, and no two of them are equal ignoring case.
C12_SkillsAreTheTermsThatOccur ==
    FieldsExtracted =>
        /\ Range(OutputSkills) \subseteq Range(all_skills)
        /\ \A term \in Range(all_skills) :
              term \in Range(OutputSkills)
                <=> OccursAsWord(term, call.args.text.chars)
        /\ NoCaseDuplicates(OutputSkills)

\* the place of a term in the combined dictionary
DictionaryIndex(term) ==
    CHOOSE i \in DOMAIN all_skills :
        all_skills[i] = term /\ \A j \in 1..(i - 1) : all_skills[j] # term

\* C18: the output skills are in the order in which the extractor found them,
\* the order of the combined dictionary.
C18_SkillsInDictionaryOrder ==
    FieldsExtracted =>
        \A i, j \in DOMAIN OutputSkills :
            i < j => DictionaryIndex(OutputSkills[i])
                       < DictionaryIndex(OutputSkills[j])

\* the text has a line that reads exactly `line`
HasLine(t, line) ==
    \E i \in DOMAIN t :
       /\ i + Len(line) - 1 <= Len(t)
       /\ SubSeq(t, i, i + Len(line) - 1) = line
       /\ (i = 1 \/ t[i - 1] = "\n")
       /\ (i + Len(line) > Len(t) \/ t[i + Len(line)] = "\n")

\* C13: for a text of more than 200 characters with a line "GPA: 3.8",
\* whatever the lines before and after it, parse_resume returns
\* dynamic_fields.key_value_pairs with the key "gpa" holding the number 3.8
C13_NumericPairWhateverTheLines ==
    ( /\ call.op = "parse_resume"
      /\ call.args.text.len > DYNAMIC_MIN_LEN
      /\ HasLine(call.args.text.chars,
                 <<"G", "P", "A", ":", " ", "3", ".", "8">>) )
    => /\ ~call.ret.raised
       /\ "dynamic_fields" \in DOMAIN call.ret.value
       /\ "key_value_pairs" \in call.ret.value["dynamic_fields"].keys
       /\ <<"g", "p", "a">> \in DOMAIN call.ret.key_value_pairs
       /\ call.ret.key_value_pairs[<<"g", "p", "a">>]
            = PyFloat(<<"3", ".", "8">>)

\* the lines of the text of the call and the sections its scan ends with
ScannedLines == Split(call.args.text.chars)

ScannedSections == ScanSections(call.args.text.chars)

\* the section names a line holds as whole words, ignoring case
NamesOf(line) ==
    { section_headers[k] : k \in { j \in DOMAIN section_headers :
                                     OccursAsWord(section_headers[j], line) } }

HeaderLines(lines) == { j \in DOMAIN lines : NamesOf(lines[j]) # {} }

\* the stripped non-empty lines between the header line j and the next one
ContentAfter(lines, j) ==
    LET later == { k \in HeaderLines(lines) : k > j }
        next == IF later = {} THEN Len(lines) + 1
                ELSE CHOOSE k \in later : \A m \in later : k <= m
    IN  SelectSeq([i \in 1..(next - j - 1) |-> Strip(lines[j + i])],
                  LAMBDA e : e # <<>>)

\* the header line j names one section, which no other header line names
NamedOnce(lines, j, h) ==
    /\ h \in NamesOf(lines[j])
    /\ \A k \in HeaderLines(lines) \ {j} : h \notin NamesOf(lines[k])

\* an entry in which no section name occurs, not even inside a word
PlainEntry(e) ==
    \A k \in DOMAIN section_headers :
       ~Within(section_headers[k], LowerStr(e))

\* C21: the non-empty lines between a header line and the next header line
\* are accumulated, in order, under that header's section; a line holding a
\* header name only inside a longer word is content and is kept
C21_ContentBetweenHeadersKept ==
    call.op = "extract_from_text"
    => \A j \in HeaderLines(ScannedLines) :
          \A h \in NamesOf(ScannedLines[j]) :
             ( /\ NamesOf(ScannedLines[j]) = {h}
               /\ NamedOnce(ScannedLines, j, h) )
             => /\ h \in DOMAIN ScannedSections
                /\ ScannedSections[h] = ContentAfter(ScannedLines, j)

\* the field that a header name is a synonym of
SynonymField(h) ==
    IF h \in {<<"w", "o", "r", "k", " ", "e", "x", "p", "e", "r", "i", "e",
                "n", "c", "e">>,
              <<"e", "m", "p", "l", "o", "y", "m", "e", "n", "t">>}
    THEN "experience"
    ELSE IF h \in Range(SectionKeys("summary")) \ {<<"s", "u", "m", "m", "a",
                                                     "r", "y">>}
    THEN "summary"
    ELSE "none"

\* C22: the lines under a "work experience" or "employment" header are
\* output in experience, those under "profile", "about", "objective" or
\* "professional summary" in summary, whichever other headers the text has
C22_SynonymsCanonicalized ==
    (call.op = "extract_from_text" /\ ~call.ret.raised)
    => \A j \in HeaderLines(ScannedLines) :
          \A h \in NamesOf(ScannedLines[j]) :
             ( /\ SynonymField(h) # "none"
               /\ NamedOnce(ScannedLines, j, h) )
             => \A i \in DOMAIN ContentAfter(ScannedLines, j) :
                   LET e == ContentAfter(ScannedLines, j)[i]
                       f == SynonymField(h)
                   IN  PlainEntry(e)
                       => /\ f \in DOMAIN call.ret.value
                          /\ IF f = "summary"
                             THEN Within(e, call.ret.value[f].items[1])
                             ELSE e \in Range(call.ret.value[f].items)

\* C23: when a header line for the same section appears a second time, the
\* lines accumulated after its first occurrence are still in that section's
\* list at the end of the scan
C23_AccumulatedContentNeverDiscarded ==
    call.op = "extract_from_text"
    => \A j \in HeaderLines(ScannedLines) :
          \A k \in HeaderLines(ScannedLines) :
             \A h \in NamesOf(ScannedLines[j]) :
                ( /\ j < k
                  /\ NamesOf(ScannedLines[j]) = {h}
                  /\ NamesOf(ScannedLines[k]) = {h} )
                => \A i \in DOMAIN ContentAfter(ScannedLines, j) :
                      PlainEntry(ContentAfter(ScannedLines, j)[i])
                      => /\ h \in DOMAIN ScannedSections
                         /\ ContentAfter(ScannedLines, j)[i]
                              \in Range(ScannedSections[h])

\* a blank-line boundary ends right before index j of t, or with only spaces
\* between
BlankLineBefore(t, j) ==
    \E k \in 2..(j - 1) :
       /\ t[k] = "\n"
       /\ t[k - 1] = "\n"
       /\ \A m \in (k + 1)..(j - 1) : t[m] = " "

\* a blank-line boundary starts right after index j of t, or with only spaces
\* between
BlankLineAfter(t, j) ==
    \E k \in (j + 1)..(Len(t) - 1) :
       /\ t[k] = "\n"
       /\ t[k + 1] = "\n"
       /\ \A m \in (j + 1)..(k - 1) : t[m] = " "

\* C24: every occurrence of a keyword of clean_text's section list, in any
\* casing and whatever precedes or follows it, has a blank-line boundary
\* before it and after it in the cleaned output
C24_KeywordsSetOffByBlankLines ==
    call.op = "clean_text"
    => \A s \in DOMAIN CleanSections :
          \A j \in DOMAIN call.ret.value :
             KeywordAt(call.ret.value, j, CleanSections[s])
             => /\ BlankLineBefore(call.ret.value, j)
                /\ BlankLineAfter(call.ret.value,
                                  j + Len(CleanSections[s]) - 1)

\* C25: the output of clean_text has no run of three or more newlines and
\* no run of two or more spaces
C25_NoLongRunsInCleanText ==
    call.op = "clean_text"
    => /\ \A i \in 1..(Len(call.ret.value) - 2) :
             ~( /\ call.ret.value[i] = "\n"
                /\ call.ret.value[i + 1] = "\n"
                /\ call.ret.value[i + 2] = "\n" )
       /\ \A i \in 1..(Len(call.ret.value) - 1) :
             ~(call.ret.value[i] = " " /\ call.ret.value[i + 1] = " ")

\* the stripped lines of the text handed to detect_custom_sections
CustomLinesOfCall ==
    [i \in DOMAIN Split(call.args.text) |-> Strip(Split(call.args.text)[i])]

\* the name equals, contains or is contained in a standard section name
FuzzyStandard(name) ==
    \E k \in DOMAIN standard_sections :
       \/ Within(standard_sections[k], name)
       \/ Within(name, standard_sections[k])

\* the non-empty lines between the header-like line j and the next
\* header-like line
LinesUnder(lines, j) ==
    LET later == { k \in DOMAIN lines : k > j /\ HeaderLike(lines[k]) }
        next == IF later = {} THEN Len(lines) + 1
                ELSE CHOOSE k \in later : \A m \in later : k <= m
    IN  SelectSeq([i \in 1..(next - j - 1) |-> lines[j + i]],
                  LAMBDA e : e # <<>>)

\* C26: no key of the result of detect_custom_sections equals, contains or
\* is contained in a standard section name, and the lines stored under a key
\* are the lines between a header-like line of that name and the next
\* header-like line, standard or custom: no line behind a standard header is
\* stored
C26_CustomSectionsAreNotStandard ==
    call.op = "detect_custom_sections"
    => \A key \in DOMAIN call.ret.value :
          /\ ~FuzzyStandard(key)
          /\ \E j \in DOMAIN CustomLinesOfCall :
                /\ HeaderLike(CustomLinesOfCall[j])
                /\ SectionName(CustomLinesOfCall[j]) = key
                /\ call.ret.value[key] = LinesUnder(CustomLinesOfCall, j)

\* a custom section is stored while a line behind a standard header and a
\* header whose name contains a standard name are left out
C26_Witness ==
    /\ call.op = "detect_custom_sections"
    /\ call.ret.value # EmptyDict
    /\ \E j \in DOMAIN CustomLinesOfCall :
          /\ HeaderLike(CustomLinesOfCall[j])
          /\ FuzzyStandard(SectionName(CustomLinesOfCall[j]))
          /\ LinesUnder(CustomLinesOfCall, j) # <<>>

\* how often x stands in the sequence s
Occurrences(s, x) == Cardinality({ i \in DOMAIN s : s[i] = x })

\* C27: every recognized entity of at least 3 characters appears exactly
\* once in the output of extract_spacy_entities, under the friendly name of
\* its raw type; GPE and LOC entities appear together under locations
C27_EveryEntityUnderItsFriendlyName ==
    ( /\ call.op = "extract_spacy_entities"
      /\ call.args.SPACY_AVAILABLE
      /\ call.args.lib.ok )
    => \A i \in DOMAIN call.args.lib.ents :
          LET ent == call.args.lib.ents[i]
          IN  Len(ent.text) >= MIN_ENTITY_LEN
              => /\ FriendlyType(ent.label_) \in DOMAIN call.ret.value
                 /\ Occurrences(call.ret.value[FriendlyType(ent.label_)],
                                Strip(SubWhitespace(ent.text))) = 1

----------------------------------------------------------------------------
(* Properties of the controller (SpecCtl) *)

\* C5: a request whose file exists but on which every backend fails ends in
\* failure, never in a successful result.
C5_UnreadableDocumentFails ==
    \A r \in Reqs :
        (/\ reqs[r].pc = "done"
         /\ reqs[r].upload = Unreadable
         /\ reqs[r].read = Unreadable)
            => ~reqs[r].success

\* C14: when extract_resume or save_resume has returned, with success or with
\* failure, the temporary file of the request is no longer in the upload
\* folder (no other request having written a file of that name).
C14_TempFileDeletedOnReturn ==
    \A r \in Reqs :
        (/\ reqs[r].pc = "done"
         /\ \A o \in Reqs \ {r} : reqs[o].filename # reqs[r].filename)
            => reqs[r].filename \notin DOMAIN fs

\* C15: whatever the interleaving of two requests, the document a request's
\* text was extracted from is the document that request uploaded.
C15_ReadsOwnUpload ==
    \A r \in Reqs :
        (reqs[r].pc \in {"extracted", "parsed", "listed", "purged", "cleared",
                         "uploaded"}
           \/ (reqs[r].pc = "done" /\ reqs[r].success))
            => reqs[r].read = reqs[r].upload

\* C28: when save_resume fails, the resumes the user had stored before the
\* call, documents and files, are left unchanged (no other request running
\* since the call arrived)
C28_FailureLeavesStoredResumes ==
    \A r \in Reqs :
        (/\ reqs[r].handler = "save_resume"
         /\ reqs[r].pc = "done"
         /\ ~reqs[r].success
         /\ reqs[r].quiet)
            => /\ reqs[r].before \subseteq db
               /\ \A d \in reqs[r].before : SpacesKey(d) \in spaces

\* C29: save_resume returns (True, result) only if the document was
\* inserted, result['resume_id'] being its non-null identifier
C29_SuccessMeansPersisted ==
    \A r \in Reqs :
        (/\ reqs[r].handler = "save_resume"
         /\ reqs[r].pc = "done"
         /\ reqs[r].success)
            => reqs[r].saved_id # NoId

\* C30: once every save_resume call has returned, the collection holds at
\* most one resume document for each user
C30_OneResumePerUser ==
    (\A r \in Reqs : reqs[r].pc \in {"idle", "done"})
        => \A u \in Users : Cardinality(ResumesOf(db, u)) <= 1

=============================================================================
